---- MODULE Spec2Model ----
(***************************************************************************)
(* Tuno VPN tunnel engine: the client (src/internal/tunnel/client.go) and  *)
(* the server (package tunnel, held in src/go.mod from line 34) life       *)
(* cycles as interleaved goroutines over the engines' shared fields.       *)
(*                                                                         *)
(* Every goroutine is a process with a program counter.  A step is one     *)
(* access to a shared field or one blocking call; fields that the code     *)
(* reads or writes without holding a lock are read and written at the step *)
(* that touches them, so every interleaving of unsynchronised accesses is  *)
(* a behaviour of the model.  A Go runtime panic ends the process: it is   *)
(* recorded in c_panic / s_panic and disables every further step.          *)
(*                                                                         *)
(* The packet model (src/internal/tunnel/packet.go) is a buffer of 16-bit  *)
(* big-endian words, two bytes each, addressed by the byte offsets the     *)
(* code uses; its arithmetic keeps the width of the Go types.              *)
(***************************************************************************)
EXTENDS Integers, Sequences, FiniteSets, TLC

\* ------------------------------------------------------------------ bounds
\* Goroutines that call Client.Connect, one call each.
Callers == {1, 2}
\* Transports the client establishes over the whole run.
MaxConns == 1
\* Largest configured ClientConfig.MaxRetries.
MaxRetriesCfg == 2
\* Consecutive failed connection attempts the environment produces: one more
\* than the largest retry budget, so that every budget can run out.
MaxFails == MaxRetriesCfg + 1

\* Inbound connections the server accepts over the whole run.
MaxPeers == 2
\* Goroutines that call Server.Stop.
Stoppers == {1, 2}

\* Calls made on one Router after NewRouter.
MaxOps == 4

\* Calls made on one TLSConn.
MaxTLSCalls == 4

\* Packets the client's interface pump reads.
MaxReads == 3

\* Packets the server's loops read, over all of them.
MaxRounds == 2

\* The goroutines that call Close on a TLSConn (client.go:90, client.go:161)
\* and the ones that call Read and Write on it (client.go:263, client.go:243).
TLSClosers == {"Stop", "runMainLoop"}
TLSUsers == {"Read", "Write"}
\* With the pumps that an earlier connection left behind (client.go:152-154
\* starts two per connection and stops none), which call Read and Write on
\* the same c.conn.
TLSReaders == {"Read", "Read2"}
TLSWriters == {"Write", "Write2"}
Peers == 1..MaxPeers

\* The two pumps of one established connection.
Dirs == {"tun", "srv"}
\* One transport more than a client of MaxConns connections makes, for the
\* client that reconnects once more (ReconnectSpec).
MaxLinks == MaxConns + 1
Conns == 1..MaxLinks
Pumps == Conns \X Dirs

VARIABLES
    \* ---- Client fields (client.go:15-28)
    c_isRunning,    \* c.isRunning
    c_stopClosed,   \* c.stopCh has been closed
    c_conn,         \* c.conn: 0 is nil, else the transport's identity
    c_tunDevice,    \* c.tunDevice: 0 is nil, else the device's identity
    c_retries,      \* c.retries
    c_reconnect,    \* c.reconnect, copied from cfg.Reconnect
    c_maxRetries,   \* c.config.MaxRetries
    c_mutex,        \* c.mutex: "free" or "stop" (held by Client.Stop)
    c_panic,        \* "none", or the runtime panic that ended the process
    \* ---- objects the client owns
    tlsClosed,      \* TLSConn.closed of each client transport
    nConns,         \* transports created so far
    tunIsRunning,   \* TUNDevice.isRunning of the device each caller created
    tunFd,          \* its descriptor: "none", "open" or "closed"
    \* ---- goroutines
    connectPc,      \* position of each Connect call
    stopPc,         \* position of the Stop call in progress
    loopPc,         \* position of the runMainLoop each Connect spawned
    loopErrCh,      \* the errCh the loop made for its current connection
    loopFails,      \* failed attempts of the loop since its last success
    errCh,          \* errors buffered in each connection's errCh (cap 2)
    pumpPc,         \* position of each pump goroutine
    pumpObj         \* the transport or device its blocking read is on

clientVars == <<c_isRunning, c_stopClosed, c_conn, c_tunDevice, c_retries,
                c_reconnect, c_maxRetries, c_mutex, c_panic, tlsClosed, nConns,
                tunIsRunning, tunFd, connectPc, stopPc, loopPc, loopErrCh,
                loopFails, errCh, pumpPc, pumpObj>>

VARIABLES
    \* ---- Server fields (go.mod:64-73)
    s_isRunning,    \* s.isRunning
    s_stopClosed,   \* s.stopCh has been closed
    s_listener,     \* s.listener: "nil", "open" or "closed"
    s_tunIsRunning, \* TUNDevice.isRunning of s.tunDevice
    s_tunFd,        \* its descriptor: "none", "open" or "closed"
    s_clients,      \* keys of s.clients: the peers registered
    s_panic,        \* "none", or the runtime panic that ended the process
    \* ---- inbound connections
    peerConn,       \* each accepted connection: "none", "open" or "closed"
    nAccepted,      \* connections accepted so far
    \* ---- goroutines
    srvStartPc,     \* position of the Start call
    srvStopPc,      \* position of each Stop call
    acceptPc,       \* position of acceptClients
    handlerPc,      \* position of each handleClient
    tunReaderPc,    \* position of handleTUNPackets
    targetClient    \* its targetClient: 0 is nil

serverVars == <<s_isRunning, s_stopClosed, s_listener, s_tunIsRunning, s_tunFd,
                s_clients, s_panic, peerConn, nAccepted, srvStartPc, srvStopPc,
                acceptPc, handlerPc, tunReaderPc, targetClient>>

\* The packet at hand, one record: a Packet and the operation of packet.go
\* applied to it (In, Out, Call, Arg, Ret), and a packet on its way through
\* the tunnel (FwdIn, FwdBuf, FwdAt); with them the packets the client's
\* interface pump has read (Reads) and c.bytesOut as it has counted them;
\* and, for the server's loops (the peers' handlers "peer", the interface
\* reader "tun"), the packet of the loop's last round (LoopIn as read,
\* LoopAt where it went), the peer whose handler ran the last round
\* (LoopOf), the registry as the last lookup saw it (Lookup), the peer last
\* written to (FwdTo), BytesIn and BytesOut of each ClientInfo (PeerIn,
\* PeerOut) and the goroutines that have written them (InBy, OutBy).
VARIABLE pkt

pktIn == pkt.In         \* the Packet handed to the operation
pktOut == pkt.Out       \* the Packet after the operation
pktCall == pkt.Call     \* the operation applied; "none" before the call
pktArg == pkt.Arg       \* the replacement address, as bytes; <<>> when none
pktRet == pkt.Ret       \* what the operation returned; "none" before the call
fwdIn == pkt.FwdIn      \* the bytes as they were read off the first interface
fwdBuf == pkt.FwdBuf    \* the bytes as they are at fwdAt
fwdAt == pkt.FwdAt      \* where the packet is: an interface, the transport, gone

packetVars == <<pkt>>

\* A Router (router.go:32-38) and the last call made on it, one record:
\* routes, ipv4Count, ipv6Count, and Ops, Call, Arg, Ret.
VARIABLE router

routerVars == <<router>>

\* A TLSConn (router.go:222-229) and the goroutines that use it, one record.
VARIABLE tlsc

tlsVars == <<tlsc>>

vars == <<clientVars, serverVars, packetVars, routerVars, tlsVars>>

\* --------------------------------------------------------- faulty variants
\* Deviations from the code, each the body of the definition it is named
\* after with one fault put in; a property that discriminates fails on them.
\* TUNDevice.Stop that leaves the device marked running.
TUNStopRunning_Faulty(d) == tunIsRunning
\* A retry budget compared with > where the code has >=.
GivesUp_OffByOne == ~c_reconnect \/ (c_maxRetries > 0 /\ c_retries > c_maxRetries)
\* A retry budget for which 0 means none rather than unlimited.
GivesUp_ZeroIsNone == ~c_reconnect \/ c_retries >= c_maxRetries
\* A loop that reconnects after a pump error whatever the configuration.
ReconnectsAfterError_Always == TRUE
\* A Connect that never rejects.
ConnectRejects_Never == FALSE
\* A Start whose receive does not wait for the stop channel.
StopSignalled_Always == TRUE
\* A comparison of networks that never finds the route already there.
SameNetwork_Never(a, b) == FALSE
\* A removal that shortens the table without moving the last route.
RoutesAfterRemove_Truncate(routes, i) == SubSeq(routes, 1, Len(routes) - 1)
\* A successful connection that leaves the retry counter as it was.
RetriesAfterSuccess_Kept == c_retries
\* A family test that takes every network for a v4 one.
IsV4_Always(network) == TRUE
\* A pump that reports its error and carries on.
PumpFails_Stays(p) ==
    /\ errCh' = [errCh EXCEPT ![p[1]] = @ + 1]
    /\ pumpPc' = [pumpPc EXCEPT ![p] = "check"]
\* One mutex for Read and Write alike.
LockOf_Shared(u) == "readLock"
\* A peer loop that counts into the first peer's ClientInfo.
CountedPeer_First(i) == 1
\* An interface reader that returns when a read fails.
TunReaderAfterReadError_Ends == "done"
\* A lookup that takes any registered peer, whatever the destination.
TargetsOf_Any(packet) == s_clients
\* A peer loop that ends when the write to the interface fails.
PeerAfterWrite_Ends(ok) == IF ok THEN "check" ELSE "dereg"
\* A pump that sends on whatever it has read.
PumpAfterParse_Forwards(err) == "write"
\* A loop that never reconnects after a pump error.
ReconnectsAfterError_Never == FALSE
\* A Close that leaves the closed flag as it was.
ClosedAfterClose_Unset == FALSE
\* A Close that never takes the early return.
CloseReturnsEarly_Never(closed) == FALSE
\* A scan that keeps the first route that contains the address.
MoreSpecific_Never(maskSize, matchedMaskSize) == FALSE
\* A TTL test that lets a TTL of 1 through.
TTLExpired_ZeroOnly(ttl) == ttl = 0
\* A checksum increment that forgets the end-around carry.
ChecksumAfterTTL_NoCarry(checksum) == (checksum + 256) % 65536
\* A failed handshake that leaves the accepted connection open.
ConnsAfterFailedHandshake_Leaked(i) == peerConn
\* A disconnect that empties the registry.
RegistryAfterDelete_All(i) == {}
\* An interface Stop that leaves the descriptor as it was.
TUNFdAfterStop_Leaked(running, fd) == fd
\* A Stop whose sweep deletes the entries without closing the transports.
CloseAll_None(ps) == peerConn

\* ------------------------------------------------------------ client: Init
\* NewClient (client.go:31-41) on a configuration the loader produced.
ClientInit ==
    /\ c_isRunning = FALSE
    /\ c_stopClosed = FALSE
    /\ c_conn = 0
    /\ c_tunDevice = 0
    /\ c_retries = 0
    /\ c_reconnect \in BOOLEAN
    /\ c_maxRetries \in 0..MaxRetriesCfg
    /\ (~c_reconnect => c_maxRetries = 0)   \* MaxRetries is read only when reconnecting
    /\ c_mutex = "free"
    /\ c_panic = "none"
    /\ tlsClosed = [t \in Conns |-> FALSE]
    /\ nConns = 0
    /\ tunIsRunning = [k \in Callers |-> FALSE]
    /\ tunFd = [k \in Callers |-> "none"]
    /\ connectPc = [k \in Callers |-> "idle"]
    /\ stopPc = "idle"
    /\ loopPc = [k \in Callers |-> "none"]
    /\ loopErrCh = [k \in Callers |-> 0]
    /\ loopFails = [k \in Callers |-> 0]
    /\ errCh = [t \in Conns |-> 0]
    /\ pumpPc = [p \in Pumps |-> "none"]
    /\ pumpObj = [p \in Pumps |-> 0]

\* ------------------------------------------------------------ server: Init
\* NewServer (go.mod:76-84).
ServerInit ==
    /\ s_isRunning = FALSE
    /\ s_stopClosed = FALSE
    /\ s_listener = "nil"
    /\ s_tunIsRunning = FALSE
    /\ s_tunFd = "none"
    /\ s_clients = {}
    /\ s_panic = "none"
    /\ peerConn = [i \in Peers |-> "none"]
    /\ nAccepted = 0
    /\ srvStartPc = "idle"
    /\ srvStopPc = [j \in Stoppers |-> "idle"]
    /\ acceptPc = "none"
    /\ handlerPc = [i \in Peers |-> "none"]
    /\ tunReaderPc = "none"
    /\ targetClient = 0

\* No packet operation is in progress and no packet is in the tunnel.
NoPacket == [Type |-> "Unknown", Data |-> <<>>]
IdlePkt ==
    [In |-> NoPacket, Out |-> NoPacket, Call |-> "none", Arg |-> <<>>,
     Ret |-> "none", FwdIn |-> <<>>, FwdBuf |-> <<>>, FwdAt |-> "none",
     Reads |-> 0, BytesOut |-> 0,
     LoopIn |-> [g \in {"peer", "tun"} |-> <<>>],
     LoopAt |-> [g \in {"peer", "tun"} |-> "none"],
     LoopOf |-> 0, Lookup |-> {}, FwdTo |-> 0,
     PeerIn |-> [i \in 1..MaxPeers |-> 0],
     PeerOut |-> [i \in 1..MaxPeers |-> 0],
     InBy |-> [i \in 1..MaxPeers |-> {}],
     OutBy |-> [i \in 1..MaxPeers |-> {}]]

PacketIdle == pkt = IdlePkt

\* No Router has been made, and no TLSConn is followed on its own.
NoRouter == [routes |-> <<>>, ipv4Count |-> 0, ipv6Count |-> 0, Ops |-> 0,
             Call |-> "none", Arg |-> <<>>, Ret |-> "none"]
TLSIdle == [pc |-> "idle", after |-> FALSE, ret |-> "none", io |-> FALSE]
NoTLSConn ==
    [closed |-> FALSE, connCloses |-> 0, calls |-> 0, closeReturned |-> FALSE,
     closeLock |-> "none", readLock |-> "none", writeLock |-> "none",
     proc |-> [p \in TLSClosers \cup TLSReaders \cup TLSWriters |-> TLSIdle]]
LibraryIdle == router = NoRouter /\ tlsc = NoTLSConn

\* Before a call of an operation of packet.go on Packet p.
BeforeCallOn(p) == [IdlePkt EXCEPT !.In = p, !.Out = p]

\* Both engines as constructed.
Init == ClientInit /\ ServerInit /\ PacketIdle /\ LibraryIdle

\* The process is alive: no goroutine has panicked.
ClientAlive == c_panic = "none"

\* Groups of variables an action leaves alone.
cfgVars == <<c_reconnect, c_maxRetries>>
tunVars == <<tunIsRunning, tunFd>>
callVars == <<connectPc, stopPc>>
loopVars == <<loopPc, loopErrCh, loopFails>>
pumpVars == <<errCh, pumpPc, pumpObj>>

\* --------------------------------------------------------- Client.Connect
\* client.go:46: the guard under c.mutex.
ConnectRejects == c_isRunning

\* client.go:45-51: lock, reject if already running, else set the flag.
ConnectGuard(k) ==
    /\ ClientAlive
    /\ UNCHANGED <<serverVars, packetVars, routerVars, tlsVars>>
    /\ connectPc[k] = "idle"
    /\ c_mutex = "free"
    /\ IF ConnectRejects
          THEN /\ connectPc' = [connectPc EXCEPT ![k] = "rejected"]
               /\ UNCHANGED c_isRunning
          ELSE /\ connectPc' = [connectPc EXCEPT ![k] = "newtun"]
               /\ c_isRunning' = TRUE
    /\ UNCHANGED <<c_stopClosed, c_conn, c_tunDevice, c_retries, cfgVars,
                   c_mutex, c_panic, tlsClosed, nConns, tunVars, stopPc, loopVars, pumpVars>>

\* client.go:56-60: NewTUNDevice; on failure the flag is cleared and Connect
\* returns the error (NewTUNDevice has released what it acquired).
ConnectNewTUN(k) ==
    /\ ClientAlive
    /\ UNCHANGED <<serverVars, packetVars, routerVars, tlsVars>>
    /\ connectPc[k] = "newtun"
    /\ \E ok \in BOOLEAN :
          IF ok
             THEN /\ c_tunDevice' = k
                  /\ tunFd' = [tunFd EXCEPT ![k] = "open"]
                  /\ connectPc' = [connectPc EXCEPT ![k] = "starttun"]
                  /\ UNCHANGED c_isRunning
             ELSE /\ c_isRunning' = FALSE
                  /\ connectPc' = [connectPc EXCEPT ![k] = "failed"]
                  /\ UNCHANGED <<c_tunDevice, tunFd>>
    /\ UNCHANGED <<c_stopClosed, c_conn, c_retries, cfgVars, c_mutex, c_panic,
                   tlsClosed, nConns, tunIsRunning, stopPc,
                   loopVars, pumpVars>>

\* client.go:63-69 with TUNDevice.Start (client.go:448-452): start the device
\* c.tunDevice names now, then spawn runMainLoop.
ConnectStartTUN(k) ==
    /\ ClientAlive
    /\ UNCHANGED <<serverVars, packetVars, routerVars, tlsVars>>
    /\ connectPc[k] = "starttun"
    /\ tunIsRunning' = [tunIsRunning EXCEPT ![c_tunDevice] = TRUE]
    /\ loopPc' = [loopPc EXCEPT ![k] = "top"]
    /\ connectPc' = [connectPc EXCEPT ![k] = "spawned"]
    /\ UNCHANGED <<c_isRunning, c_stopClosed, c_conn, c_tunDevice, c_retries,
                   cfgVars, c_mutex, c_panic, tlsClosed, nConns, tunFd, stopPc, loopErrCh, loopFails, pumpVars>>

\* client.go:72: the receive on c.stopCh: it returns at once on a closed
\* channel, and parks the caller otherwise.
ConnectReceive(k) ==
    /\ ClientAlive
    /\ UNCHANGED <<serverVars, packetVars, routerVars, tlsVars>>
    /\ connectPc[k] = "spawned"
    /\ connectPc' = [connectPc EXCEPT ![k] =
                        IF c_stopClosed THEN "returned" ELSE "wait"]
    /\ UNCHANGED <<c_isRunning, c_stopClosed, c_conn, c_tunDevice, c_retries,
                   cfgVars, c_mutex, c_panic, tlsClosed, nConns, tunVars,
                   stopPc, loopVars, pumpVars>>

\* client.go:72-73: a parked receive wakes when c.stopCh is closed.
ConnectWake(k) ==
    /\ ClientAlive
    /\ UNCHANGED <<serverVars, packetVars, routerVars, tlsVars>>
    /\ connectPc[k] = "wait"
    /\ c_stopClosed
    /\ connectPc' = [connectPc EXCEPT ![k] = "returned"]
    /\ UNCHANGED <<c_isRunning, c_stopClosed, c_conn, c_tunDevice, c_retries,
                   cfgVars, c_mutex, c_panic, tlsClosed, nConns, tunVars,
                   stopPc, loopVars, pumpVars>>

\* ------------------------------------------------------------ Client.Stop
\* client.go:81: Stop returns at once on a client that is not running.
StopIsNoop == ~c_isRunning

\* client.go:78-85: lock (held to the return), the guard, clear the flag.
StopBegin ==
    /\ ClientAlive
    /\ UNCHANGED <<serverVars, packetVars, routerVars, tlsVars>>
    /\ stopPc = "idle"
    /\ c_mutex = "free"
    /\ IF StopIsNoop
          THEN UNCHANGED <<c_isRunning, c_mutex, stopPc>>
          ELSE /\ c_isRunning' = FALSE
               /\ c_mutex' = "stop"
               /\ stopPc' = "close"
    /\ UNCHANGED <<c_stopClosed, c_conn, c_tunDevice, c_retries, cfgVars,
                   c_panic, tlsClosed, nConns, tunVars, connectPc, loopVars,
                   pumpVars>>

\* client.go:86: close(c.stopCh); closing a closed channel panics.
StopClose ==
    /\ ClientAlive
    /\ UNCHANGED <<serverVars, packetVars, routerVars, tlsVars>>
    /\ stopPc = "close"
    /\ IF c_stopClosed
          THEN /\ c_panic' = "close of closed channel"
               /\ UNCHANGED <<c_stopClosed, stopPc>>
          ELSE /\ c_stopClosed' = TRUE
               /\ stopPc' = "conncheck"
               /\ UNCHANGED c_panic
    /\ UNCHANGED <<c_isRunning, c_conn, c_tunDevice, c_retries, cfgVars,
                   c_mutex, tlsClosed, nConns, tunVars, connectPc,
                   loopVars, pumpVars>>

\* client.go:89: if c.conn != nil.
StopConnCheck ==
    /\ ClientAlive
    /\ UNCHANGED <<serverVars, packetVars, routerVars, tlsVars>>
    /\ stopPc = "conncheck"
    /\ stopPc' = IF c_conn # 0 THEN "connclose" ELSE "tuncheck"
    /\ UNCHANGED <<c_isRunning, c_stopClosed, c_conn, c_tunDevice, c_retries,
                   cfgVars, c_mutex, c_panic, tlsClosed, nConns, tunVars,
                   connectPc, loopVars, pumpVars>>

\* client.go:90 with TLSConn.Close (router.go:386-397): c.conn is read again;
\* Close on a nil *TLSConn dereferences nil.
StopConnClose ==
    /\ ClientAlive
    /\ UNCHANGED <<serverVars, packetVars, routerVars, tlsVars>>
    /\ stopPc = "connclose"
    /\ IF c_conn = 0
          THEN /\ c_panic' = "nil pointer dereference"
               /\ UNCHANGED <<tlsClosed, stopPc>>
          ELSE /\ tlsClosed' = [tlsClosed EXCEPT ![c_conn] = TRUE]
               /\ stopPc' = "connnil"
               /\ UNCHANGED c_panic
    /\ UNCHANGED <<c_isRunning, c_stopClosed, c_conn, c_tunDevice, c_retries,
                   cfgVars, c_mutex, nConns, tunVars, connectPc,
                   loopVars, pumpVars>>

\* client.go:91: c.conn = nil.
StopConnNil ==
    /\ ClientAlive
    /\ UNCHANGED <<serverVars, packetVars, routerVars, tlsVars>>
    /\ stopPc = "connnil"
    /\ c_conn' = 0
    /\ stopPc' = "tuncheck"
    /\ UNCHANGED <<c_isRunning, c_stopClosed, c_tunDevice, c_retries, cfgVars,
                   c_mutex, c_panic, tlsClosed, nConns, tunVars, connectPc, loopVars, pumpVars>>

\* TUNDevice.Stop (client.go:455-464) on device d: a device that is not
\* running is left as it is; a running one is marked stopped and its
\* descriptor closed.
TUNStopRunning(d) == [tunIsRunning EXCEPT ![d] = FALSE]
TUNStopFd(d) == IF tunIsRunning[d] THEN [tunFd EXCEPT ![d] = "closed"] ELSE tunFd

\* client.go:95-97: if c.tunDevice != nil, c.tunDevice.Stop().  The field
\* never goes back to nil, so the check and the call read it alike.
StopTunStop ==
    /\ ClientAlive
    /\ UNCHANGED <<serverVars, packetVars, routerVars, tlsVars>>
    /\ stopPc = "tuncheck"
    /\ IF c_tunDevice # 0
          THEN /\ tunIsRunning' = TUNStopRunning(c_tunDevice)
               /\ tunFd' = TUNStopFd(c_tunDevice)
          ELSE UNCHANGED <<tunIsRunning, tunFd>>
    /\ stopPc' = "ret"
    /\ UNCHANGED <<c_isRunning, c_stopClosed, c_conn, c_tunDevice, c_retries,
                   cfgVars, c_mutex, c_panic, tlsClosed, nConns, connectPc, loopVars, pumpVars>>

\* client.go:79,99-100: the deferred unlock and the return.
StopReturn ==
    /\ ClientAlive
    /\ UNCHANGED <<serverVars, packetVars, routerVars, tlsVars>>
    /\ stopPc = "ret"
    /\ c_mutex' = "free"
    /\ stopPc' = "idle"
    /\ UNCHANGED <<c_isRunning, c_stopClosed, c_conn, c_tunDevice, c_retries,
                   cfgVars, c_panic, tlsClosed, nConns, tunVars, connectPc, loopVars, pumpVars>>

\* ------------------------------------------------------ Client.runMainLoop
\* client.go:120: for c.isRunning (read without the lock).
LoopTop(k) ==
    /\ ClientAlive
    /\ UNCHANGED <<serverVars, packetVars, routerVars, tlsVars>>
    /\ loopPc[k] = "top"
    /\ loopPc' = [loopPc EXCEPT ![k] = IF c_isRunning THEN "connect" ELSE "defer"]
    /\ UNCHANGED <<c_isRunning, c_stopClosed, c_conn, c_tunDevice, c_retries,
                   cfgVars, c_mutex, c_panic, tlsClosed, nConns, tunVars,
                   callVars, loopErrCh, loopFails, pumpVars>>

\* client.go:149: the retry counter after a successful connection.
RetriesAfterSuccess == 0

\* client.go:122 with connectToServer (client.go:194-215), then client.go:
\* 149-154.  The dial fails (c.conn untouched), or the handshake fails (c.conn
\* is assigned the nil NewTLSClientConn returned), or both succeed: c.conn is
\* the new transport, the retry counter is reset, and a fresh errCh of
\* capacity 2 and the two pumps are made.
LoopConnectWithin(k, max) ==
    /\ ClientAlive
    /\ UNCHANGED <<serverVars, packetVars, routerVars, tlsVars>>
    /\ loopPc[k] = "connect"
    /\ loopFails[k] < MaxFails
    /\ \E outcome \in {"dial failed", "handshake failed", "connected"} :
          CASE outcome = "dial failed" ->
                  /\ loopPc' = [loopPc EXCEPT ![k] = "failed"]
                  /\ loopFails' = [loopFails EXCEPT ![k] = @ + 1]
                  /\ UNCHANGED <<c_conn, c_retries, nConns, loopErrCh, pumpVars>>
            [] outcome = "handshake failed" ->
                  /\ c_conn' = 0
                  /\ loopPc' = [loopPc EXCEPT ![k] = "failed"]
                  /\ loopFails' = [loopFails EXCEPT ![k] = @ + 1]
                  /\ UNCHANGED <<c_retries, nConns, loopErrCh, pumpVars>>
            [] outcome = "connected" ->
                  /\ nConns < max
                  /\ nConns' = nConns + 1
                  /\ c_conn' = nConns + 1
                  /\ c_retries' = RetriesAfterSuccess
                  /\ loopFails' = [loopFails EXCEPT ![k] = 0]
                  /\ loopErrCh' = [loopErrCh EXCEPT ![k] = nConns + 1]
                  /\ pumpPc' = [p \in Pumps |->
                                   IF p[1] = nConns + 1 THEN "check" ELSE pumpPc[p]]
                  /\ loopPc' = [loopPc EXCEPT ![k] = "wait"]
                  /\ UNCHANGED <<errCh, pumpObj>>
    /\ UNCHANGED <<c_isRunning, c_stopClosed, c_tunDevice, cfgVars, c_mutex,
                   c_panic, tlsClosed, tunVars, callVars>>

\* The attempt of a client that makes MaxConns connections at most.
LoopConnect(k) == LoopConnectWithin(k, MaxConns)

\* client.go:126: no retry when reconnection is off, or when a positive
\* maximum has been reached.
GivesUp == ~c_reconnect \/ (c_maxRetries > 0 /\ c_retries >= c_maxRetries)

\* client.go:123-137: after a failed attempt either give up (clear the flag
\* under the lock and return) or count a retry and go to wait.
LoopConnectFailed(k) ==
    /\ ClientAlive
    /\ UNCHANGED <<serverVars, packetVars, routerVars, tlsVars>>
    /\ loopPc[k] = "failed"
    /\ IF GivesUp
          THEN /\ c_mutex = "free"
               /\ c_isRunning' = FALSE
               /\ loopPc' = [loopPc EXCEPT ![k] = "defer"]
               /\ UNCHANGED c_retries
          ELSE /\ c_retries' = c_retries + 1
               /\ loopPc' = [loopPc EXCEPT ![k] = "delay"]
               /\ UNCHANGED c_isRunning
    /\ UNCHANGED <<c_stopClosed, c_conn, c_tunDevice, cfgVars, c_mutex, c_panic,
                   tlsClosed, nConns, tunVars, callVars, loopErrCh, loopFails, pumpVars>>

\* client.go:140-145: select on the delay timer and c.stopCh; when both are
\* ready the runtime picks either.
LoopDelay(k) ==
    /\ ClientAlive
    /\ UNCHANGED <<serverVars, packetVars, routerVars, tlsVars>>
    /\ loopPc[k] = "delay"
    /\ \/ loopPc' = [loopPc EXCEPT ![k] = "top"]
       \/ /\ c_stopClosed
          /\ loopPc' = [loopPc EXCEPT ![k] = "defer"]
    /\ UNCHANGED <<c_isRunning, c_stopClosed, c_conn, c_tunDevice, c_retries,
                   cfgVars, c_mutex, c_panic, tlsClosed, nConns, tunVars,
                   callVars, loopErrCh, loopFails, pumpVars>>

\* client.go:157-158,187-188: select on errCh and c.stopCh.
LoopWait(k) ==
    /\ ClientAlive
    /\ UNCHANGED <<serverVars, packetVars, routerVars, tlsVars>>
    /\ loopPc[k] = "wait"
    /\ \/ /\ errCh[loopErrCh[k]] > 0
          /\ errCh' = [errCh EXCEPT ![loopErrCh[k]] = @ - 1]
          /\ loopPc' = [loopPc EXCEPT ![k] = "errconn"]
       \/ /\ c_stopClosed
          /\ loopPc' = [loopPc EXCEPT ![k] = "defer"]
          /\ UNCHANGED errCh
    /\ UNCHANGED <<c_isRunning, c_stopClosed, c_conn, c_tunDevice, c_retries,
                   cfgVars, c_mutex, c_panic, tlsClosed, nConns, tunVars,
                   callVars, loopErrCh, loopFails, pumpPc, pumpObj>>

\* client.go:160: if c.conn != nil (read without the lock).
LoopErrConn(k) ==
    /\ ClientAlive
    /\ UNCHANGED <<serverVars, packetVars, routerVars, tlsVars>>
    /\ loopPc[k] = "errconn"
    /\ loopPc' = [loopPc EXCEPT ![k] = IF c_conn # 0 THEN "errclose" ELSE "errrun"]
    /\ UNCHANGED <<c_isRunning, c_stopClosed, c_conn, c_tunDevice, c_retries,
                   cfgVars, c_mutex, c_panic, tlsClosed, nConns, tunVars,
                   callVars, loopErrCh, loopFails, pumpVars>>

\* client.go:161: c.conn.Close(); c.conn is read again.
LoopErrClose(k) ==
    /\ ClientAlive
    /\ UNCHANGED <<serverVars, packetVars, routerVars, tlsVars>>
    /\ loopPc[k] = "errclose"
    /\ IF c_conn = 0
          THEN /\ c_panic' = "nil pointer dereference"
               /\ UNCHANGED <<tlsClosed, loopPc>>
          ELSE /\ tlsClosed' = [tlsClosed EXCEPT ![c_conn] = TRUE]
               /\ loopPc' = [loopPc EXCEPT ![k] = "errnil"]
               /\ UNCHANGED c_panic
    /\ UNCHANGED <<c_isRunning, c_stopClosed, c_conn, c_tunDevice, c_retries,
                   cfgVars, c_mutex, nConns, tunVars, callVars, loopErrCh, loopFails, pumpVars>>

\* client.go:162: c.conn = nil.
LoopErrNil(k) ==
    /\ ClientAlive
    /\ UNCHANGED <<serverVars, packetVars, routerVars, tlsVars>>
    /\ loopPc[k] = "errnil"
    /\ c_conn' = 0
    /\ loopPc' = [loopPc EXCEPT ![k] = "errrun"]
    /\ UNCHANGED <<c_isRunning, c_stopClosed, c_tunDevice, c_retries, cfgVars,
                   c_mutex, c_panic, tlsClosed, nConns, tunVars, callVars,
                   loopErrCh, loopFails, pumpVars>>

\* client.go:171: after a pump error on a running client, reconnect only
\* when reconnection is enabled.
ReconnectsAfterError == c_reconnect

\* client.go:166-185: exit if stopping; else wait to reconnect, or clear the
\* flag under the lock and return.
LoopErrRun(k) ==
    /\ ClientAlive
    /\ UNCHANGED <<serverVars, packetVars, routerVars, tlsVars>>
    /\ loopPc[k] = "errrun"
    /\ IF ~c_isRunning
          THEN /\ loopPc' = [loopPc EXCEPT ![k] = "defer"]
               /\ UNCHANGED c_isRunning
          ELSE IF ReconnectsAfterError
                  THEN /\ loopPc' = [loopPc EXCEPT ![k] = "redelay"]
                       /\ UNCHANGED c_isRunning
                  ELSE /\ c_mutex = "free"
                       /\ c_isRunning' = FALSE
                       /\ loopPc' = [loopPc EXCEPT ![k] = "defer"]
    /\ UNCHANGED <<c_stopClosed, c_conn, c_tunDevice, c_retries, cfgVars,
                   c_mutex, c_panic, tlsClosed, nConns, tunVars, callVars,
                   loopErrCh, loopFails, pumpVars>>

\* client.go:174-179: select on the reconnect timer and c.stopCh.
LoopReDelay(k) ==
    /\ ClientAlive
    /\ UNCHANGED <<serverVars, packetVars, routerVars, tlsVars>>
    /\ loopPc[k] = "redelay"
    /\ \/ loopPc' = [loopPc EXCEPT ![k] = "top"]
       \/ /\ c_stopClosed
          /\ loopPc' = [loopPc EXCEPT ![k] = "defer"]
    /\ UNCHANGED <<c_isRunning, c_stopClosed, c_conn, c_tunDevice, c_retries,
                   cfgVars, c_mutex, c_panic, tlsClosed, nConns, tunVars,
                   callVars, loopErrCh, loopFails, pumpVars>>

\* Goroutines parked in a receive on c.stopCh: Connect callers in
\* client.go:72, and loops in one of the three selects.
ParkedCallers == {j \in Callers : connectPc[j] = "wait"}
SelectingLoops == {j \in Callers : loopPc[j] \in {"delay", "wait", "redelay"}}

\* client.go:112-118: the deferred non-blocking send on c.stopCh.  A send on
\* a closed channel panics, also inside a select with a default.  On an open
\* channel the value goes to a parked receiver if there is one (a Connect
\* caller returns; a loop takes its <-c.stopCh case and returns); a loop counts
\* as parked or not, since it may not have reached its select yet.  With no
\* receiver the default case runs.
LoopDefer(k) ==
    /\ ClientAlive
    /\ UNCHANGED <<serverVars, packetVars, routerVars, tlsVars>>
    /\ loopPc[k] = "defer"
    /\ IF c_stopClosed
          THEN /\ c_panic' = "send on closed channel"
               /\ UNCHANGED <<connectPc, loopPc>>
          ELSE /\ UNCHANGED c_panic
               /\ \/ \E j \in ParkedCallers :
                        /\ connectPc' = [connectPc EXCEPT ![j] = "returned"]
                        /\ loopPc' = [loopPc EXCEPT ![k] = "done"]
                  \/ \E j \in SelectingLoops :
                        /\ loopPc' = [loopPc EXCEPT ![k] = "done", ![j] = "defer"]
                        /\ UNCHANGED connectPc
                  \/ /\ ParkedCallers = {}
                     /\ loopPc' = [loopPc EXCEPT ![k] = "done"]
                     /\ UNCHANGED connectPc
    /\ UNCHANGED <<c_isRunning, c_stopClosed, c_conn, c_tunDevice, c_retries,
                   cfgVars, c_mutex, tlsClosed, nConns, tunVars, stopPc, loopErrCh, loopFails, pumpVars>>

\* ------------------------------------------------------------------ pumps
\* client.go:221,255: for c.isRunning.
PumpCheck(p) ==
    /\ ClientAlive
    /\ UNCHANGED <<serverVars, packetVars, routerVars, tlsVars>>
    /\ pumpPc[p] = "check"
    /\ pumpPc' = [pumpPc EXCEPT ![p] = IF c_isRunning THEN "call" ELSE "done"]
    /\ UNCHANGED <<c_isRunning, c_stopClosed, c_conn, c_tunDevice, c_retries,
                   cfgVars, c_mutex, c_panic, tlsClosed, nConns, tunVars,
                   callVars, loopVars, errCh, pumpObj>>

\* client.go:223 / client.go:257: the blocking read is entered on the device
\* or transport the field names at that moment; TLSConn.Read on a nil
\* *TLSConn dereferences nil.
PumpCall(p) ==
    /\ ClientAlive
    /\ UNCHANGED <<serverVars, packetVars, routerVars, tlsVars>>
    /\ pumpPc[p] = "call"
    /\ IF p[2] = "srv" /\ c_conn = 0
          THEN /\ c_panic' = "nil pointer dereference"
               /\ UNCHANGED <<pumpPc, pumpObj>>
          ELSE /\ pumpObj' = [pumpObj EXCEPT ![p] =
                                 IF p[2] = "tun" THEN c_tunDevice ELSE c_conn]
               /\ pumpPc' = [pumpPc EXCEPT ![p] = "read"]
               /\ UNCHANGED c_panic
    /\ UNCHANGED <<c_isRunning, c_stopClosed, c_conn, c_tunDevice, c_retries,
                   cfgVars, c_mutex, tlsClosed, nConns, tunVars, callVars,
                   loopVars, errCh>>

\* client.go:151: errCh := make(chan error, 2).
ErrChCap == 2

\* The pump reports its error on its errCh and returns (client.go:225-226,
\* 245-246, 259-260, 279-280); the send waits while the buffer is full.
PumpFails(p) ==
    /\ errCh[p[1]] < ErrChCap
    /\ errCh' = [errCh EXCEPT ![p[1]] = @ + 1]
    /\ pumpPc' = [pumpPc EXCEPT ![p] = "done"]

\* client.go:223-240: handleTUNPackets reads the interface.  A read on a
\* closed descriptor fails; otherwise a packet arrives, the counters are
\* updated under the lock, and the packet is parsed: unparseable packets are
\* dropped and the loop continues.
PumpTunRead(g) ==
    /\ ClientAlive
    /\ UNCHANGED <<serverVars, packetVars, routerVars, tlsVars>>
    /\ pumpPc[<<g, "tun">>] = "read"
    /\ IF tunFd[pumpObj[<<g, "tun">>]] # "open"
          THEN PumpFails(<<g, "tun">>)
          ELSE /\ c_mutex = "free"
               /\ \E parsed \in BOOLEAN :
                     pumpPc' = [pumpPc EXCEPT ![<<g, "tun">>] =
                                   IF parsed THEN "write" ELSE "check"]
               /\ UNCHANGED errCh
    /\ UNCHANGED <<c_isRunning, c_stopClosed, c_conn, c_tunDevice, c_retries,
                   cfgVars, c_mutex, c_panic, tlsClosed, nConns, tunVars,
                   callVars, loopVars, pumpObj>>

\* client.go:243-247 with TLSConn.Write (router.go:374-383): c.conn is read
\* at the call; a closed transport, or a connection the peer has dropped,
\* fails the write.
PumpTunWrite(g) ==
    /\ ClientAlive
    /\ UNCHANGED <<serverVars, packetVars, routerVars, tlsVars>>
    /\ pumpPc[<<g, "tun">>] = "write"
    /\ IF c_conn = 0
          THEN /\ c_panic' = "nil pointer dereference"
               /\ UNCHANGED <<errCh, pumpPc>>
          ELSE /\ UNCHANGED c_panic
               /\ IF tlsClosed[c_conn]
                     THEN PumpFails(<<g, "tun">>)
                     ELSE \/ PumpFails(<<g, "tun">>)
                          \/ /\ pumpPc' = [pumpPc EXCEPT ![<<g, "tun">>] = "check"]
                             /\ UNCHANGED errCh
    /\ UNCHANGED <<c_isRunning, c_stopClosed, c_conn, c_tunDevice, c_retries,
                   cfgVars, c_mutex, tlsClosed, nConns, tunVars, callVars,
                   loopVars, pumpObj>>

\* client.go:257-274 with TLSConn.Read (router.go:362-371): handleServerPackets
\* reads the transport it entered the read on.  A closed transport or a
\* dropped connection fails the read; otherwise a packet arrives, the
\* counters are updated under the lock, and the packet is parsed.
PumpSrvRead(g) ==
    /\ ClientAlive
    /\ UNCHANGED <<serverVars, packetVars, routerVars, tlsVars>>
    /\ pumpPc[<<g, "srv">>] = "read"
    /\ \/ PumpFails(<<g, "srv">>)
       \/ /\ ~tlsClosed[pumpObj[<<g, "srv">>]]
          /\ c_mutex = "free"
          /\ \E parsed \in BOOLEAN :
                pumpPc' = [pumpPc EXCEPT ![<<g, "srv">>] =
                              IF parsed THEN "write" ELSE "check"]
          /\ UNCHANGED errCh
    /\ UNCHANGED <<c_isRunning, c_stopClosed, c_conn, c_tunDevice, c_retries,
                   cfgVars, c_mutex, c_panic, tlsClosed, nConns, tunVars,
                   callVars, loopVars, pumpObj>>

\* client.go:277-281 with TUNDevice.Write (client.go:472-474): the write
\* fails on a closed descriptor.
PumpSrvWrite(g) ==
    /\ ClientAlive
    /\ UNCHANGED <<serverVars, packetVars, routerVars, tlsVars>>
    /\ pumpPc[<<g, "srv">>] = "write"
    /\ IF tunFd[c_tunDevice] # "open"
          THEN PumpFails(<<g, "srv">>)
          ELSE /\ pumpPc' = [pumpPc EXCEPT ![<<g, "srv">>] = "check"]
               /\ UNCHANGED errCh
    /\ UNCHANGED <<c_isRunning, c_stopClosed, c_conn, c_tunDevice, c_retries,
                   cfgVars, c_mutex, c_panic, tlsClosed, nConns, tunVars,
                   callVars, loopVars, pumpObj>>

\* ------------------------------------------------------ the client's steps
\* The steps of the goroutines that belong to the Connect calls in ks.
ClientSteps(ks) ==
    \/ \E k \in ks : ConnectGuard(k)
    \/ \E k \in ks : ConnectNewTUN(k)
    \/ \E k \in ks : ConnectStartTUN(k)
    \/ \E k \in ks : ConnectReceive(k)
    \/ \E k \in ks : ConnectWake(k)
    \/ StopBegin
    \/ StopClose
    \/ StopConnCheck
    \/ StopConnClose
    \/ StopConnNil
    \/ StopTunStop
    \/ StopReturn
    \/ \E k \in ks : LoopTop(k)
    \/ \E k \in ks : LoopConnect(k)
    \/ \E k \in ks : LoopConnectFailed(k)
    \/ \E k \in ks : LoopDelay(k)
    \/ \E k \in ks : LoopWait(k)
    \/ \E k \in ks : LoopErrConn(k)
    \/ \E k \in ks : LoopErrClose(k)
    \/ \E k \in ks : LoopErrNil(k)
    \/ \E k \in ks : LoopErrRun(k)
    \/ \E k \in ks : LoopReDelay(k)
    \/ \E k \in ks : LoopDefer(k)
    \/ \E p \in Pumps : PumpCheck(p)
    \/ \E p \in Pumps : PumpCall(p)
    \/ \E g \in Conns : PumpTunRead(g)
    \/ \E g \in Conns : PumpTunWrite(g)
    \/ \E g \in Conns : PumpSrvRead(g)
    \/ \E g \in Conns : PumpSrvWrite(g)

\* One Connect call on a new client, as cmd/tunocli/main.go:113-119 makes it,
\* with Stop callable at any moment and any number of times.
ClientNext == ClientSteps({1})

ClientSpec == Init /\ [][ClientNext]_vars

\* The same client, which may connect once more.
ReconnectNext == ClientNext \/ LoopConnectWithin(1, MaxLinks)

ReconnectSpec == Init /\ [][ReconnectNext]_vars

\* Two Connect calls on one client while the server cannot be reached: every
\* connection attempt fails, so no transport and no pump exists.
LoopConnectUnreachable(k) == LoopConnect(k) /\ loopPc'[k] = "failed"

ConnectNext ==
    \/ \E k \in Callers : ConnectGuard(k)
    \/ \E k \in Callers : ConnectNewTUN(k)
    \/ \E k \in Callers : ConnectStartTUN(k)
    \/ \E k \in Callers : ConnectReceive(k)
    \/ \E k \in Callers : ConnectWake(k)
    \/ StopBegin
    \/ StopClose
    \/ StopConnCheck
    \/ StopTunStop
    \/ StopReturn
    \/ \E k \in Callers : LoopTop(k)
    \/ \E k \in Callers : LoopConnectUnreachable(k)
    \/ \E k \in Callers : LoopConnectFailed(k)
    \/ \E k \in Callers : LoopDelay(k)
    \/ \E k \in Callers : LoopDefer(k)

ConnectSpec == Init /\ [][ConnectNext]_vars

\* ============================================================ the server
\* The process is alive: no goroutine has panicked.
ServerAlive == s_panic = "none"

srvFields == <<s_isRunning, s_stopClosed, s_listener>>
srvTunVars == <<s_tunIsRunning, s_tunFd>>
srvPeerVars == <<s_clients, peerConn, nAccepted, handlerPc>>
srvTunReader == <<tunReaderPc, targetClient>>

\* ------------------------------------------------------------ Server.Start
\* go.mod:88: Start refuses a server that is already running.
StartRejects == s_isRunning

\* go.mod:87-113: the guard, NewTUNDevice, TUNDevice.Start, net.Listen, and
\* the run flag.  No other goroutine of the server exists yet and Stop
\* returns at its guard while the flag is false, so the steps up to the
\* flag's write are one step.  A failure to open the interface returns the
\* error; a failure to listen stops the interface first.
\* client.go:455-464: TUNDevice.Stop closes the descriptor of a running
\* interface and does nothing on one that is not running.
TUNFdAfterStop(running, fd) == IF running THEN "closed" ELSE fd

ServerStart ==
    /\ ServerAlive
    /\ UNCHANGED <<clientVars, packetVars, routerVars, tlsVars>>
    /\ srvStartPc = "idle"
    /\ IF StartRejects
          THEN /\ srvStartPc' = "rejected"
               /\ UNCHANGED <<s_isRunning, s_listener, srvTunVars>>
          ELSE \E outcome \in {"no interface", "no listener", "listening"} :
                 CASE outcome = "no interface" ->
                         /\ srvStartPc' = "failed"
                         /\ UNCHANGED <<s_isRunning, s_listener, srvTunVars>>
                   [] outcome = "no listener" ->
                         /\ s_tunIsRunning' = FALSE
                         /\ s_tunFd' = TUNFdAfterStop(TRUE, "open")
                         /\ srvStartPc' = "failed"
                         /\ UNCHANGED <<s_isRunning, s_listener>>
                   [] outcome = "listening" ->
                         /\ s_tunIsRunning' = TRUE
                         /\ s_tunFd' = "open"
                         /\ s_listener' = "open"
                         /\ s_isRunning' = TRUE
                         /\ srvStartPc' = "listening"
    /\ UNCHANGED <<s_stopClosed, s_panic, srvPeerVars, srvStopPc, acceptPc,
                   srvTunReader>>

\* go.mod:116-119: go s.handleTUNPackets(); go s.acceptClients().
ServerStartSpawn ==
    /\ ServerAlive
    /\ UNCHANGED <<clientVars, packetVars, routerVars, tlsVars>>
    /\ srvStartPc = "listening"
    /\ tunReaderPc' = "check"
    /\ acceptPc' = "check"
    /\ srvStartPc' = "spawned"
    /\ UNCHANGED <<srvFields, srvTunVars, s_panic, srvPeerVars, srvStopPc,
                   targetClient>>

\* go.mod:122: the receive on s.stopCh completes only on a closed channel
\* (nothing is ever sent on it).
StopSignalled == s_stopClosed

\* go.mod:122-123: <-s.stopCh blocks until the channel is closed; then Start
\* returns nil.
ServerStartReceive ==
    /\ ServerAlive
    /\ UNCHANGED <<clientVars, packetVars, routerVars, tlsVars>>
    /\ srvStartPc = "spawned"
    /\ StopSignalled
    /\ srvStartPc' = "returned"
    /\ UNCHANGED <<srvFields, srvTunVars, s_panic, srvPeerVars, srvStopPc,
                   acceptPc, srvTunReader>>

\* ------------------------------------------------------------- Server.Stop
\* go.mod:128: Stop returns at once on a server that is not running.
ServerStopIsNoop == ~s_isRunning

\* go.mod:128-130: the guard; the flag is read without a lock.
ServerStopGuard(j) ==
    /\ ServerAlive
    /\ UNCHANGED <<clientVars, packetVars, routerVars, tlsVars>>
    /\ srvStopPc[j] = "idle"
    /\ srvStopPc' = [srvStopPc EXCEPT ![j] = IF ServerStopIsNoop THEN "idle" ELSE "clear"]
    /\ UNCHANGED <<srvFields, srvTunVars, s_panic, srvPeerVars, srvStartPc,
                   acceptPc, srvTunReader>>

\* go.mod:132: s.isRunning = false.
ServerStopClear(j) ==
    /\ ServerAlive
    /\ UNCHANGED <<clientVars, packetVars, routerVars, tlsVars>>
    /\ srvStopPc[j] = "clear"
    /\ s_isRunning' = FALSE
    /\ srvStopPc' = [srvStopPc EXCEPT ![j] = "close"]
    /\ UNCHANGED <<s_stopClosed, s_listener, srvTunVars, s_panic, srvPeerVars,
                   srvStartPc, acceptPc, srvTunReader>>

\* go.mod:135: close(s.stopCh); closing a closed channel panics.
ServerStopClose(j) ==
    /\ ServerAlive
    /\ UNCHANGED <<clientVars, packetVars, routerVars, tlsVars>>
    /\ srvStopPc[j] = "close"
    /\ IF s_stopClosed
          THEN /\ s_panic' = "close of closed channel"
               /\ UNCHANGED <<s_stopClosed, srvStopPc>>
          ELSE /\ s_stopClosed' = TRUE
               /\ srvStopPc' = [srvStopPc EXCEPT ![j] = "listener"]
               /\ UNCHANGED s_panic
    /\ UNCHANGED <<s_isRunning, s_listener, srvTunVars, srvPeerVars,
                   srvStartPc, acceptPc, srvTunReader>>

\* go.mod:138-140: if s.listener != nil, s.listener.Close().
ServerStopListener(j) ==
    /\ ServerAlive
    /\ UNCHANGED <<clientVars, packetVars, routerVars, tlsVars>>
    /\ srvStopPc[j] = "listener"
    /\ s_listener' = IF s_listener # "nil" THEN "closed" ELSE s_listener
    /\ srvStopPc' = [srvStopPc EXCEPT ![j] = "sweep"]
    /\ UNCHANGED <<s_isRunning, s_stopClosed, srvTunVars, s_panic, srvPeerVars,
                   srvStartPc, acceptPc, srvTunReader>>

\* go.mod:146 with TLSConn.Close (router.go:386-397): the connections after
\* the transport of every peer in set ps has been closed.
CloseAll(ps) == [i \in Peers |-> IF i \in ps THEN "closed" ELSE peerConn[i]]

\* go.mod:147: the registry after every peer found in it has been deleted.
RegistryAfterSweep == {}

\* go.mod:143-149: under the exclusive registry lock, close the transport of
\* every registered peer and delete the entry.
ServerStopSweep(j) ==
    /\ ServerAlive
    /\ UNCHANGED <<clientVars, packetVars, routerVars, tlsVars>>
    /\ srvStopPc[j] = "sweep"
    /\ peerConn' = CloseAll(s_clients)
    /\ s_clients' = RegistryAfterSweep
    /\ srvStopPc' = [srvStopPc EXCEPT ![j] = "tun"]
    /\ UNCHANGED <<srvFields, srvTunVars, s_panic, nAccepted, handlerPc,
                   srvStartPc, acceptPc, srvTunReader>>

\* go.mod:152-154 with TUNDevice.Stop (client.go:455-464): a device that is
\* not running is left as it is; a running one is marked stopped and its
\* descriptor closed.
ServerStopTun(j) ==
    /\ ServerAlive
    /\ UNCHANGED <<clientVars, packetVars, routerVars, tlsVars>>
    /\ srvStopPc[j] = "tun"
    /\ s_tunIsRunning' = FALSE
    /\ s_tunFd' = TUNFdAfterStop(s_tunIsRunning, s_tunFd)
    /\ srvStopPc' = [srvStopPc EXCEPT ![j] = "ret"]
    /\ UNCHANGED <<srvFields, s_panic, srvPeerVars, srvStartPc, acceptPc,
                   srvTunReader>>

\* go.mod:156-157: return nil.
ServerStopReturn(j) ==
    /\ ServerAlive
    /\ UNCHANGED <<clientVars, packetVars, routerVars, tlsVars>>
    /\ srvStopPc[j] = "ret"
    /\ srvStopPc' = [srvStopPc EXCEPT ![j] = "idle"]
    /\ UNCHANGED <<srvFields, srvTunVars, s_panic, srvPeerVars, srvStartPc,
                   acceptPc, srvTunReader>>

\* ---------------------------------------------------- Server.acceptClients
\* go.mod:162: for s.isRunning.
AcceptCheck ==
    /\ ServerAlive
    /\ UNCHANGED <<clientVars, packetVars, routerVars, tlsVars>>
    /\ acceptPc = "check"
    /\ acceptPc' = IF s_isRunning THEN "accept" ELSE "done"
    /\ UNCHANGED <<srvFields, srvTunVars, s_panic, srvPeerVars, srvStartPc,
                   srvStopPc, srvTunReader>>

\* go.mod:163-172: Accept fails on a closed listener and the loop goes round;
\* on an open one it blocks until a connection arrives, and the connection is
\* handed to a new handleClient goroutine.
AcceptConn ==
    /\ ServerAlive
    /\ UNCHANGED <<clientVars, packetVars, routerVars, tlsVars>>
    /\ acceptPc = "accept"
    /\ IF s_listener = "closed"
          THEN UNCHANGED <<peerConn, nAccepted, handlerPc>>
          ELSE /\ nAccepted < MaxPeers
               /\ nAccepted' = nAccepted + 1
               /\ peerConn' = [peerConn EXCEPT ![nAccepted + 1] = "open"]
               /\ handlerPc' = [handlerPc EXCEPT ![nAccepted + 1] = "handshake"]
    /\ acceptPc' = "check"
    /\ UNCHANGED <<srvFields, srvTunVars, s_clients, s_panic, srvStartPc,
                   srvStopPc, srvTunReader>>

\* ----------------------------------------------------- Server.handleClient
\* go.mod:179-184 with NewTLSServerConn (router.go:232-277): the handshake
\* fails (the connection is closed and the handler returns) or succeeds.
\* go.mod:180-183: on a handshake error only the accepted connection is closed.
ConnsAfterFailedHandshake(i) == [peerConn EXCEPT ![i] = "closed"]

HandleClientHandshake(i) ==
    /\ ServerAlive
    /\ UNCHANGED <<clientVars, packetVars, routerVars, tlsVars>>
    /\ handlerPc[i] = "handshake"
    /\ \E ok \in BOOLEAN :
          IF ok
             THEN /\ handlerPc' = [handlerPc EXCEPT ![i] = "register"]
                  /\ UNCHANGED peerConn
             ELSE /\ peerConn' = ConnsAfterFailedHandshake(i)
                  /\ handlerPc' = [handlerPc EXCEPT ![i] = "done"]
    /\ UNCHANGED <<srvFields, srvTunVars, s_clients, s_panic, nAccepted,
                   srvStartPc, srvStopPc, acceptPc, srvTunReader>>

\* go.mod:192-201: the tunnel address written into peer i's ClientInfo, as
\* bytes; the same parsed literal, 10.0.0.2, for every peer.
TunIPOf(i) == <<10, 0, 0, 2>>

\* go.mod:204-206: the registry after peer i has been added.
RegistryAfterAdd(i) == s_clients \cup {i}

\* go.mod:186-206: build the ClientInfo and add it to the registry under the
\* exclusive lock; neither the run flag nor the stop channel is consulted.
HandleClientRegister(i) ==
    /\ ServerAlive
    /\ UNCHANGED <<clientVars, packetVars, routerVars, tlsVars>>
    /\ handlerPc[i] = "register"
    /\ s_clients' = RegistryAfterAdd(i)
    /\ handlerPc' = [handlerPc EXCEPT ![i] = "check"]
    /\ UNCHANGED <<srvFields, srvTunVars, s_panic, peerConn, nAccepted,
                   srvStartPc, srvStopPc, acceptPc, srvTunReader>>

\* go.mod:222: for s.isRunning.
HandleClientCheck(i) ==
    /\ ServerAlive
    /\ UNCHANGED <<clientVars, packetVars, routerVars, tlsVars>>
    /\ handlerPc[i] = "check"
    /\ handlerPc' = [handlerPc EXCEPT ![i] = IF s_isRunning THEN "read" ELSE "dereg"]
    /\ UNCHANGED <<srvFields, srvTunVars, s_clients, s_panic, peerConn,
                   nAccepted, srvStartPc, srvStopPc, acceptPc, srvTunReader>>

\* go.mod:224-252 with TLSConn.Read (router.go:362-371): a read on a closed
\* transport fails and ends the loop; on an open one either the peer drops
\* the connection (the read fails) or a packet arrives, and whatever becomes
\* of it (unparseable, expired, written to the interface or not) the loop
\* goes round.
HandleClientRead(i) ==
    /\ ServerAlive
    /\ UNCHANGED <<clientVars, packetVars, routerVars, tlsVars>>
    /\ handlerPc[i] = "read"
    /\ IF peerConn[i] = "closed"
          THEN handlerPc' = [handlerPc EXCEPT ![i] = "dereg"]
          ELSE \E dropped \in BOOLEAN :
                  handlerPc' = [handlerPc EXCEPT ![i] =
                                   IF dropped THEN "dereg" ELSE "check"]
    /\ UNCHANGED <<srvFields, srvTunVars, s_clients, s_panic, peerConn,
                   nAccepted, srvStartPc, srvStopPc, acceptPc, srvTunReader>>

\* go.mod:212-215: delete the entry under the exclusive lock and return; the
\* transport is not closed here.
\* go.mod:212-214: the registry after peer i's entry has been deleted.
RegistryAfterDelete(i) == s_clients \ {i}

HandleClientDeregister(i) ==
    /\ ServerAlive
    /\ UNCHANGED <<clientVars, packetVars, routerVars, tlsVars>>
    /\ handlerPc[i] = "dereg"
    /\ s_clients' = RegistryAfterDelete(i)
    /\ handlerPc' = [handlerPc EXCEPT ![i] = "done"]
    /\ UNCHANGED <<srvFields, srvTunVars, s_panic, peerConn, nAccepted,
                   srvStartPc, srvStopPc, acceptPc, srvTunReader>>

\* ------------------------------------------------- Server.handleTUNPackets
\* go.mod:260: for s.isRunning.
TunReaderCheck ==
    /\ ServerAlive
    /\ UNCHANGED <<clientVars, packetVars, routerVars, tlsVars>>
    /\ tunReaderPc = "check"
    /\ tunReaderPc' = IF s_isRunning THEN "read" ELSE "done"
    /\ UNCHANGED <<srvFields, srvTunVars, s_panic, srvPeerVars, srvStartPc,
                   srvStopPc, acceptPc, targetClient>>

\* go.mod:193,280: every peer is given the address 10.0.0.2, so a packet for
\* that address matches every entry, and the range over the map stops at
\* whichever it meets first.
Matches(toPeerAddr) == IF toPeerAddr THEN s_clients ELSE {}

\* go.mod:262-285: read the interface (a closed descriptor fails the read
\* and the loop goes round after a pause), parse the packet (unparseable
\* ones are dropped), and look up the target under the shared lock.
TunReaderRead ==
    /\ ServerAlive
    /\ UNCHANGED <<clientVars, packetVars, routerVars, tlsVars>>
    /\ tunReaderPc = "read"
    /\ IF s_tunFd # "open"
          THEN /\ tunReaderPc' = "check"
               /\ UNCHANGED targetClient
          ELSE \E parsed \in BOOLEAN, toPeerAddr \in BOOLEAN :
                  IF parsed /\ Matches(toPeerAddr) # {}
                     THEN /\ targetClient' \in Matches(toPeerAddr)
                          /\ tunReaderPc' = "write"
                     ELSE /\ tunReaderPc' = "check"
                          /\ UNCHANGED targetClient
    /\ UNCHANGED <<srvFields, srvTunVars, s_panic, srvPeerVars, srvStartPc,
                   srvStopPc, acceptPc>>

\* go.mod:288-297 with TLSConn.Write (router.go:374-383): count the bytes and
\* write to the target's transport; the loop goes round whether the write
\* succeeds or fails.
TunReaderWrite ==
    /\ ServerAlive
    /\ UNCHANGED <<clientVars, packetVars, routerVars, tlsVars>>
    /\ tunReaderPc = "write"
    /\ targetClient' = 0
    /\ tunReaderPc' = "check"
    /\ UNCHANGED <<srvFields, srvTunVars, s_panic, srvPeerVars, srvStartPc,
                   srvStopPc, acceptPc>>

\* ------------------------------------------------------ server: behaviours
ServerSteps(js) ==
    \/ ServerStart
    \/ ServerStartSpawn
    \/ ServerStartReceive
    \/ \E j \in js : ServerStopGuard(j)
    \/ \E j \in js : ServerStopClear(j)
    \/ \E j \in js : ServerStopClose(j)
    \/ \E j \in js : ServerStopListener(j)
    \/ \E j \in js : ServerStopSweep(j)
    \/ \E j \in js : ServerStopTun(j)
    \/ \E j \in js : ServerStopReturn(j)
    \/ AcceptCheck
    \/ AcceptConn
    \/ \E i \in Peers : HandleClientHandshake(i)
    \/ \E i \in Peers : HandleClientRegister(i)
    \/ \E i \in Peers : HandleClientCheck(i)
    \/ \E i \in Peers : HandleClientRead(i)
    \/ \E i \in Peers : HandleClientDeregister(i)
    \/ TunReaderCheck
    \/ TunReaderRead
    \/ TunReaderWrite

\* The server as cmd/tunocli runs it: one Start call, and Stop called from
\* the signal handler (main.go:141-151).
ServerNext == ServerSteps({1})

\* The server alone; the client of this process is never started.
ServerOnlyInit ==
    ServerInit /\ ClientInit /\ ~c_reconnect /\ PacketIdle /\ LibraryIdle
ServerSpec == ServerOnlyInit /\ [][ServerNext]_vars

\* The server with Stop called from two goroutines, the signal handler and
\* one other caller of the Tunneler interface (go.mod:47-50).
TwoStopsNext == ServerSteps(Stoppers)
TwoStopsSpec == ServerOnlyInit /\ [][TwoStopsNext]_vars

\* The scheduler runs every goroutine that can take a step: the Start call
\* and the Stop call are not starved.
StartSteps == ServerStart \/ ServerStartSpawn \/ ServerStartReceive
StopSteps(j) ==
    \/ ServerStopGuard(j) \/ ServerStopClear(j) \/ ServerStopClose(j)
    \/ ServerStopListener(j) \/ ServerStopSweep(j) \/ ServerStopTun(j)
    \/ ServerStopReturn(j)

ServerFairSpec ==
    /\ ServerSpec
    /\ WF_vars(StartSteps)
    /\ WF_vars(StopSteps(1))

\* The scheduler runs every goroutine that can take a step, and a blocking
\* call on a closed listener, transport or interface returns its error.  A
\* blocking call on an open one may never return: nothing obliges a peer to
\* connect or to send, or a packet to arrive on the interface.
AcceptRuns ==
    \/ AcceptCheck
    \/ AcceptConn /\ s_listener = "closed"

HandlerRuns(i) ==
    \/ HandleClientHandshake(i)
    \/ HandleClientRegister(i)
    \/ HandleClientCheck(i)
    \/ HandleClientRead(i) /\ peerConn[i] = "closed"
    \/ HandleClientDeregister(i)

TunReaderRuns ==
    \/ TunReaderCheck
    \/ TunReaderRead /\ s_tunFd # "open"
    \/ TunReaderWrite

\* Some goroutine of the server other than the Stop caller takes a step.
GoroutineRuns ==
    \/ StartSteps
    \/ AcceptRuns
    \/ \E i \in Peers : HandlerRuns(i)
    \/ TunReaderRuns

\* Stop keeps running, and the scheduler does not leave every other runnable
\* goroutine waiting for ever.
ServerLiveSpec ==
    /\ ServerSpec
    /\ WF_vars(StopSteps(1))
    /\ WF_vars(GoroutineRuns)

\* ============================================================= the packet
\* Packet.Data is a sequence of 16-bit words: word k holds the bytes at
\* offsets 2k-2 (high) and 2k-1 (low).
\* The byte at offset off: p.Data[off].
ByteAt(d, off) ==
    LET w == d[(off \div 2) + 1]
    IN  IF off % 2 = 0 THEN w \div 256 ELSE w % 256

\* The buffer after p.Data[off] = b.
WithByte(d, off, b) ==
    LET k == (off \div 2) + 1
        w == d[k]
    IN  [d EXCEPT ![k] = IF off % 2 = 0 THEN b * 256 + (w % 256)
                                          ELSE (w \div 256) * 256 + b]

\* binary.BigEndian.Uint16(p.Data[off:off+2]) for an even offset.
Uint16At(d, off) == d[(off \div 2) + 1]

\* The buffer after binary.BigEndian.PutUint16(p.Data[off:off+2], v).
PutUint16(d, off, v) == [d EXCEPT ![(off \div 2) + 1] = v]

\* ---------------------------------------- the header checksum of RFC 791
\* The reference the incremental updates are compared with: the one's
\* complement of the one's-complement sum of the ten words of a 20-byte
\* header, the checksum field taken as zero.
RECURSIVE SumWords(_)
SumWords(ws) == IF ws = <<>> THEN 0 ELSE Head(ws) + SumWords(Tail(ws))

RECURSIVE Fold(_)
Fold(n) == IF n < 65536 THEN n ELSE Fold((n % 65536) + (n \div 65536))

HeaderWords(d) == SubSeq(d, 1, 10)

FullChecksum(d) == 65535 - Fold(SumWords(HeaderWords(PutUint16(d, 10, 0))))

\* What a receiver checks: the sum over the header as it stands, checksum
\* field included, is all ones.
Validates(d) == Fold(SumWords(HeaderWords(d))) = 65535

\* ------------------------------------------------------- Packet.ModifyTTL
\* packet.go:118 and packet.go:134: if p.Data[..] <= 1.
TTLExpired(ttl) == ttl <= 1

\* packet.go:125-129 on a uint16: checksum += 0x0100, and one more when the
\* result is at most 0x00FF.
ChecksumAfterTTL(checksum) ==
    LET added == (checksum + 256) % 65536
    IN  IF added <= 255 THEN (added + 1) % 65536 ELSE added

\* packet.go:115-142: the returned bool and the buffer after the call.
ModifyTTL(p) ==
    IF p.Type = "IPv4"
       THEN IF TTLExpired(ByteAt(p.Data, 8))
               THEN [ret |-> FALSE, Data |-> p.Data]
               ELSE LET d1 == WithByte(p.Data, 8,
                                       (ByteAt(p.Data, 8) + 255) % 256)
                        checksum == ChecksumAfterTTL(Uint16At(d1, 10))
                    IN  [ret |-> TRUE, Data |-> PutUint16(d1, 10, checksum)]
       ELSE IF p.Type = "IPv6"
               THEN IF TTLExpired(ByteAt(p.Data, 7))
                       THEN [ret |-> FALSE, Data |-> p.Data]
                       ELSE [ret |-> TRUE,
                             Data |-> WithByte(p.Data, 7,
                                         (ByteAt(p.Data, 7) + 255) % 256)]
               ELSE [ret |-> FALSE, Data |-> p.Data]

\* --------------------------------------------------------- input packets
\* A 20-byte IPv4 header (version 4, IHL 5, don't-fragment) from 10.0.0.2
\* to 10.0.0.1 followed by two payload bytes, with the checksum field as
\* given.
V4Raw(id, ttl, proto, checksum) ==
    <<17664, 22, id, 16384, ttl * 256 + proto, checksum,
      2560, 2, 2560, 1, 43981>>

\* The same with a correct header checksum.
V4Packet(id, ttl, proto) ==
    LET raw == V4Raw(id, ttl, proto, 0)
    IN  [Type |-> "IPv4", Data |-> PutUint16(raw, 10, FullChecksum(raw))]

\* A 40-byte IPv6 header (version 6) followed by two payload bytes.
V6Packet(flow, next, hop) ==
    [Type |-> "IPv6",
     Data |-> <<24576, flow, 2, next * 256 + hop,
                64768, 0, 0, 0, 0, 0, 0, 2,
                64768, 0, 0, 0, 0, 0, 0, 1, 43981>>]

\* A Packet whose Type is PacketTypeUnknown.
OtherPacket(id, ttl) ==
    [Type |-> "Unknown", Data |-> V4Raw(id, ttl, 6, 0)]

\* TTL and hop-limit values: expired, smallest that is forwarded, largest.
TTLs == {0, 1, 2, 3, 64, 255}

\* Inputs for the edges: every TTL of TTLs on a few v4 headers with a correct
\* checksum and on one with a wrong checksum, v6 packets, and packets of
\* another type.
TTLEdgeInputs ==
    {V4Packet(id, ttl, 17) : id \in {0, 1, 4660, 65535}, ttl \in TTLs}
      \cup {[Type |-> "IPv4", Data |-> V4Raw(7, ttl, 6, 4660)] : ttl \in TTLs}
      \cup {V6Packet(flow, 6, hop) : flow \in {0, 65535}, hop \in TTLs}
      \cup {OtherPacket(7, ttl) : ttl \in TTLs}

\* The call packet.ModifyTTL() on one of the inputs.  For the v4 packets that
\* are forwarded the identification field runs over every 16-bit value, so
\* their correct checksum takes every value a correct checksum can take.
TTLInit ==
    /\ ClientInit /\ ~c_reconnect
    /\ ServerInit
    /\ \/ \E id \in 0..65535, ttl \in {2, 64} :
             pkt = BeforeCallOn(V4Packet(id, ttl, 6))
       \/ \E p \in TTLEdgeInputs : pkt = BeforeCallOn(p)
    /\ LibraryIdle

CallModifyTTL ==
    /\ pktCall = "none"
    /\ pkt' = [pkt EXCEPT
                 !.Call = "ModifyTTL",
                 !.Out = [pktIn EXCEPT !.Data = ModifyTTL(pktIn).Data],
                 !.Ret = IF ModifyTTL(pktIn).ret THEN "true" ELSE "false"]
    /\ UNCHANGED <<clientVars, serverVars, routerVars, tlsVars>>

TTLSpec == TTLInit /\ [][CallModifyTTL]_vars

\* ------------------------------------------- Packet.Replace...Address
\* binary.BigEndian.Uint16(addr[i : i+2]) on an address held as bytes.
AddrWord(addr, i) == addr[i + 1] * 256 + addr[i + 2]

\* The buffer after copy(p.Data[off:off+len(bytes)], bytes).
RECURSIVE CopyBytes(_, _, _)
CopyBytes(d, off, bytes) ==
    IF bytes = <<>>
       THEN d
       ELSE CopyBytes(WithByte(d, off, Head(bytes)), off + 1, Tail(bytes))

\* The bytes p.Data[off:off+n].
BytesAt(d, off, n) == [k \in 1..n |-> ByteAt(d, off + k - 1)]

\* packet.go:222-239.  adjustment is a uint32 and is at most 4 * 0xFFFF, so
\* its additions do not wrap; the high half is added to the low half once;
\* the last addition is converted to uint16.
recalculateIPv4Checksum(packet, oldAddr, newAddr) ==
    LET oldChecksum == Uint16At(packet, 10)
        summed == AddrWord(oldAddr, 0) + (65535 - AddrWord(newAddr, 0))
                    + AddrWord(oldAddr, 2) + (65535 - AddrWord(newAddr, 2))
        adjustment == (summed % 65536) + (summed \div 65536)
        newChecksum == (adjustment + oldChecksum) % 65536
    IN  PutUint16(packet, 10, newChecksum)

\* packet.go:146-181 (offset 12, source) and packet.go:184-219 (offset 16,
\* destination): v4off and v6off are the offsets of the address for the two
\* versions.  The result is the returned error and the buffer.
ReplaceAddress(p, newAddr, v4off, v6off) ==
    IF p.Type = "IPv4"
       THEN IF Len(newAddr) # 4
               THEN [ret |-> "error", Data |-> p.Data]
               ELSE LET oldAddr == BytesAt(p.Data, v4off, 4)
                        replaced == CopyBytes(p.Data, v4off, newAddr)
                    IN  [ret |-> "nil",
                         Data |-> recalculateIPv4Checksum(replaced, oldAddr,
                                                          newAddr)]
       ELSE IF p.Type = "IPv6"
               THEN IF Len(newAddr) # 16
                       THEN [ret |-> "error", Data |-> p.Data]
                       ELSE [ret |-> "nil",
                             Data |-> CopyBytes(p.Data, v6off, newAddr)]
               ELSE [ret |-> "error", Data |-> p.Data]

ReplaceSourceAddress(p, newSource) == ReplaceAddress(p, newSource, 12, 8)

ReplaceDestinationAddress(p, newDestination) ==
    ReplaceAddress(p, newDestination, 16, 24)

\* Replacement addresses: 4 bytes, and one of 3 and one of 16 bytes.
NewAddrs ==
    {<<10, 0, 0, 2>>, <<10, 0, 0, 3>>, <<192, 168, 1, 1>>, <<0, 0, 0, 0>>,
     <<255, 255, 255, 255>>, <<172, 16, 254, 1>>, <<10, 0, 0>>,
     <<253, 0, 0, 0, 0, 0, 0, 0, 0, 0, 0, 0, 0, 0, 0, 9>>}

AddrInputs ==
    {V4Packet(id, 64, 6) : id \in 0..255}
      \cup {V4Packet(id, 64, 17) : id \in {4660, 43690, 65535}}
      \cup {V6Packet(0, 6, 64), OtherPacket(7, 64)}

\* A call of ReplaceSourceAddress or ReplaceDestinationAddress on one of the
\* inputs.
AddrInit ==
    /\ ClientInit /\ ~c_reconnect
    /\ ServerInit
    /\ \E p \in AddrInputs : pkt = BeforeCallOn(p)
    /\ LibraryIdle

CallReplaceSource ==
    /\ pktCall = "none"
    /\ \E newSource \in NewAddrs :
          pkt' = [pkt EXCEPT
                    !.Call = "ReplaceSourceAddress",
                    !.Arg = newSource,
                    !.Out = [pktIn EXCEPT
                               !.Data = ReplaceSourceAddress(
                                            pktIn, newSource).Data],
                    !.Ret = ReplaceSourceAddress(pktIn, newSource).ret]
    /\ UNCHANGED <<clientVars, serverVars, routerVars, tlsVars>>

CallReplaceDestination ==
    /\ pktCall = "none"
    /\ \E newDestination \in NewAddrs :
          pkt' = [pkt EXCEPT
                    !.Call = "ReplaceDestinationAddress",
                    !.Arg = newDestination,
                    !.Out = [pktIn EXCEPT
                               !.Data = ReplaceDestinationAddress(
                                            pktIn, newDestination).Data],
                    !.Ret = ReplaceDestinationAddress(
                                pktIn, newDestination).ret]
    /\ UNCHANGED <<clientVars, serverVars, routerVars, tlsVars>>

AddrNext == CallReplaceSource \/ CallReplaceDestination

AddrSpec == AddrInit /\ [][AddrNext]_vars

\* ------------------------------------------------------------ ParsePacket
\* packet.go:48-66 with parseIPv4Packet (packet.go:67-84) and parseIPv6Packet
\* (packet.go:87-104): the version nibble selects the parser; a buffer
\* shorter than the fixed header, or than the header length a v4 header
\* declares, is an error.
ParsePacket(data) ==
    LET bytes == 2 * Len(data)
        failed == [err |-> TRUE, pkt |-> NoPacket]
    IN  IF Len(data) < 1
           THEN failed
           ELSE LET version == (ByteAt(data, 0) \div 16) % 16
                IN  IF version = 4
                       THEN IF bytes < 20 \/ bytes < (ByteAt(data, 0) % 16) * 4
                               THEN failed
                               ELSE [err |-> FALSE,
                                     pkt |-> [Type |-> "IPv4", Data |-> data]]
                       ELSE IF version = 6
                               THEN IF bytes < 40
                                       THEN failed
                                       ELSE [err |-> FALSE,
                                             pkt |-> [Type |-> "IPv6",
                                                      Data |-> data]]
                               ELSE failed

\* The TTL byte of a v4 packet, the hop-limit byte of a v6 packet.
HopLimit(p) == IF p.Type = "IPv4" THEN ByteAt(p.Data, 8) ELSE ByteAt(p.Data, 7)

\* Packet.Destination: header.Dst of the parsed header.
DestinationOf(p) ==
    IF p.Type = "IPv4" THEN BytesAt(p.Data, 16, 4) ELSE BytesAt(p.Data, 24, 16)

\* ============================================================== forwarding
\* One packet at a time is followed through the tunnel between a connected
\* client and a serving server.  Each action is one iteration of a forwarding
\* loop whose reads and writes succeed; the loops' own life cycle, failed
\* reads and writes included, is in the pump, handler and reader actions
\* above.

\* The client after Connect has established its transport and both pumps
\* are blocked in their reads.
ClientConnected ==
    /\ c_isRunning = TRUE
    /\ c_stopClosed = FALSE
    /\ c_conn = 1
    /\ c_tunDevice = 1
    /\ c_retries = 0
    /\ c_reconnect = FALSE
    /\ c_maxRetries = 0
    /\ c_mutex = "free"
    /\ c_panic = "none"
    /\ tlsClosed = [t \in Conns |-> FALSE]
    /\ nConns = 1
    /\ tunIsRunning = [k \in Callers |-> k = 1]
    /\ tunFd = [k \in Callers |-> IF k = 1 THEN "open" ELSE "none"]
    /\ connectPc = [k \in Callers |-> IF k = 1 THEN "spawned" ELSE "idle"]
    /\ stopPc = "idle"
    /\ loopPc = [k \in Callers |-> IF k = 1 THEN "wait" ELSE "none"]
    /\ loopErrCh = [k \in Callers |-> IF k = 1 THEN 1 ELSE 0]
    /\ loopFails = [k \in Callers |-> 0]
    /\ errCh = [t \in Conns |-> 0]
    /\ pumpPc = [p \in Pumps |-> IF p[1] = 1 THEN "read" ELSE "none"]
    /\ pumpObj = [p \in Pumps |-> IF p[1] = 1 THEN 1 ELSE 0]

\* The server after Start, with peer 1 registered and in its read, the
\* accept loop in Accept and the interface reader in its read.
ServerServing ==
    /\ s_isRunning = TRUE
    /\ s_stopClosed = FALSE
    /\ s_listener = "open"
    /\ s_tunIsRunning = TRUE
    /\ s_tunFd = "open"
    /\ s_clients = {1}
    /\ s_panic = "none"
    /\ peerConn = [i \in Peers |-> IF i = 1 THEN "open" ELSE "none"]
    /\ nAccepted = 1
    /\ srvStartPc = "spawned"
    /\ srvStopPc = [j \in Stoppers |-> "idle"]
    /\ acceptPc = "accept"
    /\ handlerPc = [i \in Peers |-> IF i = 1 THEN "read" ELSE "none"]
    /\ tunReaderPc = "read"
    /\ targetClient = 0

\* A v4 packet from 10.0.0.1 to the address given, with a correct checksum.
V4DataTo(id, ttl, dst) ==
    LET raw == <<17664, 22, id, 16384, ttl * 256 + 6, 0,
                 2560, 1, AddrWord(dst, 0), AddrWord(dst, 2), 43981>>
    IN  PutUint16(raw, 10, FullChecksum(raw))

\* Bytes that arrive on an interface: v4 and v6 packets with every TTL of
\* TTLs, a v4 header cut short, and a buffer of another version.
ForwardInputs ==
    {V4Packet(id, ttl, 6).Data : id \in 0..7, ttl \in TTLs}
      \cup {V4DataTo(id, ttl, dst) :
               id \in {0, 9}, ttl \in TTLs,
               dst \in {<<10, 0, 0, 2>>, <<10, 0, 0, 9>>}}
      \cup {V6Packet(flow, 6, hop).Data : flow \in {0, 65535}, hop \in TTLs}
      \cup {SubSeq(V4Packet(0, 64, 6).Data, 1, 4), OtherPacket(7, 64).Data}

\* The packet has just been read off the client's interface or off the
\* server's.
ForwardInit ==
    /\ ClientConnected
    /\ ServerServing
    /\ \E data \in ForwardInputs, at \in {"client tun", "server tun in"} :
          pkt = [IdlePkt EXCEPT !.FwdIn = data, !.FwdBuf = data, !.FwdAt = at]
    /\ LibraryIdle

\* The packet is dropped where it is.
Dropped == pkt' = [pkt EXCEPT !.FwdAt = "dropped"]

\* The bytes data have been written to the place at.
Written(data, at) == pkt' = [pkt EXCEPT !.FwdBuf = data, !.FwdAt = at]

\* A client that decrements the TTL before it writes to the transport.
ClientUplinkData_TTL(packet) == ModifyTTL(packet).Data

\* client.go:243: c.conn.Write(packet.Data).
ClientUplinkData(packet) == packet.Data

\* go.mod:242-249: ModifyTTL, then s.tunDevice.Write(packet.Data).
ServerInbound(packet) == ModifyTTL(packet)

\* go.mod:293: targetClient.Conn.Write(packet.Data).
ServerDownlinkData(packet) == packet.Data

\* client.go:277: c.tunDevice.Write(packet.Data).
ClientInboundData(packet) == packet.Data

\* client.go:221-247, Client.handleTUNPackets: read the interface, count the
\* bytes under the lock, parse (drop on error), write to the transport.
ClientTunToServer ==
    /\ ClientAlive
    /\ pumpPc[<<1, "tun">>] = "read"
    /\ tunFd[pumpObj[<<1, "tun">>]] = "open"
    /\ c_mutex = "free"
    /\ fwdAt = "client tun"
    /\ IF ParsePacket(fwdBuf).err
          THEN Dropped
          ELSE /\ c_conn # 0
               /\ ~tlsClosed[c_conn]
               /\ Written(ClientUplinkData(ParsePacket(fwdBuf).pkt), "uplink")
    /\ UNCHANGED <<clientVars, serverVars, routerVars, tlsVars>>

\* go.mod:222-252, Server.handleClientPackets: read the peer's transport,
\* parse (drop on error), ModifyTTL (drop when it returns false), write to
\* the interface.
ServerClientToTun ==
    /\ ServerAlive
    /\ handlerPc[1] = "read"
    /\ peerConn[1] = "open"
    /\ fwdAt = "uplink"
    /\ IF ParsePacket(fwdBuf).err
          THEN Dropped
          ELSE IF ~ServerInbound(ParsePacket(fwdBuf).pkt).ret
                  THEN Dropped
                  ELSE /\ s_tunFd = "open"
                       /\ Written(
                              ServerInbound(ParsePacket(fwdBuf).pkt).Data,
                              "server tun")
    /\ UNCHANGED <<clientVars, serverVars, routerVars, tlsVars>>

\* go.mod:260-300, Server.handleTUNPackets: read the interface, parse (drop
\* on error), look for a registered peer whose TunIP equals the destination
\* (drop when there is none), write to that peer's transport.
ServerTunToClient ==
    /\ ServerAlive
    /\ tunReaderPc = "read"
    /\ s_tunFd = "open"
    /\ fwdAt = "server tun in"
    /\ IF ParsePacket(fwdBuf).err
          THEN Dropped
          ELSE LET packet == ParsePacket(fwdBuf).pkt
                   targets == {i \in s_clients :
                                  TunIPOf(i) = DestinationOf(packet)}
               IN  IF targets = {}
                      THEN Dropped
                      ELSE /\ \E i \in targets : peerConn[i] = "open"
                           /\ Written(ServerDownlinkData(packet), "downlink")
    /\ UNCHANGED <<clientVars, serverVars, routerVars, tlsVars>>

\* client.go:255-281, Client.handleServerPackets: read the transport, count
\* the bytes under the lock, parse (drop on error), write to the interface.
ClientServerToTun ==
    /\ ClientAlive
    /\ pumpPc[<<1, "srv">>] = "read"
    /\ ~tlsClosed[pumpObj[<<1, "srv">>]]
    /\ c_mutex = "free"
    /\ fwdAt = "downlink"
    /\ IF ParsePacket(fwdBuf).err
          THEN Dropped
          ELSE /\ c_tunDevice # 0
               /\ tunFd[c_tunDevice] = "open"
               /\ Written(ClientInboundData(ParsePacket(fwdBuf).pkt), "client tun out")
    /\ UNCHANGED <<clientVars, serverVars, routerVars, tlsVars>>

ForwardNext ==
    \/ ClientTunToServer
    \/ ServerClientToTun
    \/ ServerTunToClient
    \/ ClientServerToTun

ForwardSpec == ForwardInit /\ [][ForwardNext]_vars

\* --------------------------------------------- the client's interface pump
\* Client.handleTUNPackets (client.go:218-249) with the bytes it reads and
\* the counter it keeps, on an established connection: the loop is in its
\* select and nobody calls Stop.

\* What arrives on the interface: a v4 and a v6 packet, a v4 header cut
\* short, a buffer of another version, and an empty read.
UplinkInputs ==
    {V4Packet(0, 64, 6).Data, V6Packet(0, 6, 64).Data,
     SubSeq(V4Packet(0, 64, 6).Data, 1, 4), OtherPacket(7, 64).Data, <<>>}

\* n of client.go:223: the bytes of a buffer of 16-bit words.
SizeOf(data) == 2 * Len(data)

\* client.go:231: c.bytesOut += uint64(n); the sums here stay far below 2^64.
BytesOutAfterRead(bytesOut, data) == bytesOut + SizeOf(data)

\* client.go:236-240: on a parse error continue, else go on to the write.
PumpAfterParse(err) == IF err THEN "check" ELSE "write"

UplinkInit ==
    /\ ClientConnected
    /\ ServerServing
    /\ PacketIdle
    /\ LibraryIdle

\* client.go:223-240: the read, the counter under the lock, the parse.
UplinkRead ==
    /\ ClientAlive
    /\ pumpPc[<<1, "tun">>] = "read"
    /\ pkt.Reads < MaxReads
    /\ IF tunFd[pumpObj[<<1, "tun">>]] # "open"
          THEN /\ PumpFails(<<1, "tun">>)
               /\ UNCHANGED pkt
          ELSE /\ c_mutex = "free"
               /\ \E data \in UplinkInputs :
                     /\ pkt' = [pkt EXCEPT
                                   !.Reads = @ + 1,
                                   !.BytesOut = BytesOutAfterRead(@, data),
                                   !.FwdIn = data, !.FwdBuf = data,
                                   !.FwdAt = "client tun"]
                     /\ pumpPc' = [pumpPc EXCEPT ![<<1, "tun">>] =
                                      PumpAfterParse(ParsePacket(data).err)]
               /\ UNCHANGED errCh
    /\ UNCHANGED <<c_isRunning, c_stopClosed, c_conn, c_tunDevice, c_retries,
                   cfgVars, c_mutex, c_panic, tlsClosed, nConns, tunVars,
                   callVars, loopVars, pumpObj>>
    /\ UNCHANGED <<serverVars, routerVars, tlsVars>>

\* client.go:243-247: c.conn.Write(packet.Data); a failed write is reported
\* on errCh and ends the pump.
UplinkWrite ==
    /\ ClientAlive
    /\ pumpPc[<<1, "tun">>] = "write"
    /\ IF c_conn = 0
          THEN /\ c_panic' = "nil pointer dereference"
               /\ UNCHANGED <<errCh, pumpPc, pkt>>
          ELSE /\ UNCHANGED c_panic
               /\ \/ /\ PumpFails(<<1, "tun">>)
                     /\ Dropped
                  \/ /\ ~tlsClosed[c_conn]
                     /\ pumpPc' = [pumpPc EXCEPT ![<<1, "tun">>] = "check"]
                     /\ Written(ClientUplinkData(ParsePacket(fwdBuf).pkt),
                                "uplink")
                     /\ UNCHANGED errCh
    /\ UNCHANGED <<c_isRunning, c_stopClosed, c_conn, c_tunDevice, c_retries,
                   cfgVars, c_mutex, tlsClosed, nConns, tunVars, callVars,
                   loopVars, pumpObj>>
    /\ UNCHANGED <<serverVars, routerVars, tlsVars>>

UplinkNext ==
    \/ UplinkRead
    \/ UplinkWrite
    \/ \E p \in Pumps : PumpCheck(p)
    \/ \E p \in Pumps : PumpCall(p)
    \/ PumpSrvRead(1)
    \/ PumpSrvWrite(1)

UplinkSpec == UplinkInit /\ [][UplinkNext]_vars

\* ------------------------------------------- the server's loops, with data
\* Server.handleClientPackets (go.mod:219-254) and Server.handleTUNPackets
\* (go.mod:257-303) with the bytes they read and the counters they keep, on a
\* server that is serving, accepts further peers and may be stopped.

\* What arrives on a peer's transport: v4 packets with TTL 64 and with TTL 1,
\* and a v4 header cut short.
PeerInputs ==
    {V4DataTo(0, 64, <<10, 0, 0, 9>>), V4DataTo(0, 1, <<10, 0, 0, 9>>),
     SubSeq(V4Packet(0, 64, 6).Data, 1, 4)}

\* What arrives on the interface: v4 packets for 10.0.0.2 and for 10.0.0.9,
\* and a v4 header cut short.
TunInputs ==
    {V4DataTo(0, 64, <<10, 0, 0, 2>>), V4DataTo(0, 64, <<10, 0, 0, 9>>),
     SubSeq(V4Packet(0, 64, 6).Data, 1, 4)}

\* Start has returned, two peers have been accepted and registered, and each
\* loop is about to read.
ServingTwo ==
    /\ s_isRunning = TRUE
    /\ s_stopClosed = FALSE
    /\ s_listener = "open"
    /\ s_tunIsRunning = TRUE
    /\ s_tunFd = "open"
    /\ s_clients = {1, 2}
    /\ s_panic = "none"
    /\ peerConn = [i \in Peers |-> IF i \in {1, 2} THEN "open" ELSE "none"]
    /\ nAccepted = 2
    /\ srvStartPc = "spawned"
    /\ srvStopPc = [j \in Stoppers |-> "idle"]
    /\ acceptPc = "accept"
    /\ handlerPc = [i \in Peers |-> IF i \in {1, 2} THEN "read" ELSE "none"]
    /\ tunReaderPc = "read"
    /\ targetClient = 0

ServerDataInit ==
    /\ ClientInit /\ ~c_reconnect
    /\ ServingTwo
    /\ PacketIdle
    /\ LibraryIdle

\* go.mod:231-232: the ClientInfo whose LastActivity and BytesIn the loop of
\* peer i updates: client, its own.
CountedPeer(i) == i

\* go.mod:249-252: the loop goes round whether the write succeeded or not.
PeerAfterWrite(ok) == "check"

\* go.mod:224-253, one round of the loop of peer i: the read (an error breaks
\* the loop), the counters, the parse and ModifyTTL (either failing, the
\* packet is dropped and the loop goes round), and the write to the interface
\* (TUNDevice.Write, client.go:472-474), which fails on a closed descriptor
\* and may fail on an open one.
PeerRead(i) ==
    /\ ServerAlive
    /\ handlerPc[i] = "read"
    /\ \E ok \in BOOLEAN :
          IF peerConn[i] = "closed" \/ ~ok
             THEN /\ handlerPc' = [handlerPc EXCEPT ![i] = "dereg"]
                  /\ UNCHANGED pkt
             ELSE /\ pkt.Reads < MaxRounds
                  /\ \E data \in PeerInputs,
                        wrote \in (IF s_tunFd = "open" THEN BOOLEAN
                                   ELSE {FALSE}) :
                        LET parsed == ParsePacket(data)
                            forward == /\ ~parsed.err
                                       /\ ServerInbound(parsed.pkt).ret
                        IN  /\ pkt' = [pkt EXCEPT
                                  !.Reads = @ + 1,
                                  !.PeerIn[CountedPeer(i)] = @ + SizeOf(data),
                                  !.InBy[CountedPeer(i)] =
                                      @ \cup {<<"handleClient", i>>},
                                  !.LoopOf = i,
                                  !.LoopIn["peer"] = data,
                                  !.LoopAt["peer"] =
                                      IF forward /\ wrote THEN "server tun"
                                      ELSE "dropped"]
                            /\ handlerPc' = [handlerPc EXCEPT ![i] =
                                    IF forward THEN PeerAfterWrite(wrote)
                                    ELSE "check"]
    /\ UNCHANGED <<srvFields, srvTunVars, s_clients, s_panic, peerConn,
                   nAccepted, srvStartPc, srvStopPc, acceptPc, srvTunReader>>
    /\ UNCHANGED <<clientVars, routerVars, tlsVars>>

\* go.mod:278-284: the entries of the registry whose TunIP equals the
\* packet's destination.
TargetsOf(packet) == {i \in s_clients : TunIPOf(i) = DestinationOf(packet)}

\* go.mod:263-267: after a failed read the loop logs, sleeps a second and
\* continues at its head.
TunReaderAfterReadError == "check"

\* go.mod:262-285: the read (on an error the loop sleeps a second and goes
\* round), the parse (drop on error), and the lookup under the shared lock:
\* the range over the map stops at the first entry that matches.
TunRead ==
    /\ ServerAlive
    /\ tunReaderPc = "read"
    /\ \E ok \in (IF s_tunFd = "open" THEN BOOLEAN ELSE {FALSE}) :
          IF ~ok
             THEN /\ pkt' = [pkt EXCEPT !.LoopAt["tun"] = "read failed"]
                  /\ tunReaderPc' = TunReaderAfterReadError
                  /\ UNCHANGED targetClient
             ELSE /\ pkt.Reads < MaxRounds
                  /\ \E data \in TunInputs :
                        LET parsed == ParsePacket(data)
                            targets == IF parsed.err THEN {}
                                       ELSE TargetsOf(parsed.pkt)
                        IN  /\ pkt' = [pkt EXCEPT
                                  !.Reads = @ + 1,
                                  !.LoopIn["tun"] = data,
                                  !.LoopAt["tun"] =
                                      IF targets = {} THEN "dropped"
                                      ELSE "interface",
                                  !.Lookup = IF parsed.err THEN @
                                             ELSE s_clients]
                            /\ IF targets = {}
                                  THEN /\ tunReaderPc' = "check"
                                       /\ UNCHANGED targetClient
                                  ELSE /\ targetClient' \in targets
                                       /\ tunReaderPc' = "write"
    /\ UNCHANGED <<srvFields, srvTunVars, s_panic, srvPeerVars, srvStartPc,
                   srvStopPc, acceptPc>>
    /\ UNCHANGED <<clientVars, routerVars, tlsVars>>

\* go.mod:288-297: count the bytes into the target's BytesOut, write to its
\* transport (which fails when the transport is closed and may fail when it
\* is open), and go round either way.
TunWrite ==
    /\ ServerAlive
    /\ tunReaderPc = "write"
    /\ \E ok \in (IF peerConn[targetClient] = "open" THEN BOOLEAN
                  ELSE {FALSE}) :
          pkt' = [pkt EXCEPT
                     !.PeerOut[targetClient] =
                         @ + SizeOf(ServerDownlinkData(
                                        ParsePacket(pkt.LoopIn["tun"]).pkt)),
                     !.OutBy[targetClient] = @ \cup {<<"handleTUNPackets", 0>>},
                     !.LoopAt["tun"] = IF ok THEN "downlink" ELSE "dropped",
                     !.FwdTo = IF ok THEN targetClient ELSE 0]
    /\ targetClient' = 0
    /\ tunReaderPc' = "check"
    /\ UNCHANGED <<srvFields, srvTunVars, s_panic, srvPeerVars, srvStartPc,
                   srvStopPc, acceptPc>>
    /\ UNCHANGED <<clientVars, routerVars, tlsVars>>

ServerDataNext ==
    \/ StopSteps(1)
    \/ \E i \in Peers : HandleClientCheck(i)
    \/ \E i \in Peers : PeerRead(i)
    \/ \E i \in Peers : HandleClientDeregister(i)
    \/ TunReaderCheck
    \/ TunRead
    \/ TunWrite

ServerDataSpec == ServerDataInit /\ [][ServerDataNext]_vars

\* ============================================================== the router
\* An address is its bytes (4 or 16); a network is the bytes of its masked
\* address and the number of leading ones of its mask; a CIDR string is the
\* address and the number it names.
RECURSIVE Pow2(_)
Pow2(n) == IF n = 0 THEN 1 ELSE 2 * Pow2(n - 1)

\* The leading k bits of byte b, the others cleared.
MaskedByte(b, k) == (b \div Pow2(8 - k)) * Pow2(8 - k)

\* The number of mask bits that fall into byte i of an address.
BitsInByte(ones, i) ==
    IF ones <= 8 * (i - 1) THEN 0
    ELSE IF ones >= 8 * i THEN 8 ELSE ones - 8 * (i - 1)

\* ip.Mask(mask) for a mask of ones leading ones.
MaskIP(ip, ones) ==
    [i \in 1..Len(ip) |-> MaskedByte(ip[i], BitsInByte(ones, i))]

\* net.ParseCIDR as router.go:71 and router.go:108 use it: an error for a
\* prefix length the address family does not have, else the network with
\* the address masked.
ParseCIDR(cidr) ==
    IF cidr.Ones > 8 * Len(cidr.IP)
       THEN [err |-> TRUE, network |-> [IP |-> <<>>, Ones |-> 0]]
       ELSE [err |-> FALSE,
             network |-> [IP |-> MaskIP(cidr.IP, cidr.Ones),
                          Ones |-> cidr.Ones]]

\* route.Network.Contains(ip): same family and equal under the mask.
Contains(network, ip) ==
    /\ Len(ip) = Len(network.IP)
    /\ MaskIP(ip, network.Ones) = network.IP

\* router.go:81 and router.go:117: route.Network.String() == network.String().
SameNetwork(a, b) == a = b

\* The index of the first route whose network is the one given; 0 if none.
FirstIndex(routes, network) ==
    LET found == {i \in 1..Len(routes) : SameNetwork(routes[i].Network, network)}
    IN  IF found = {} THEN 0
        ELSE CHOOSE i \in found : \A k \in found : i <= k

\* router.go:96 and router.go:123: network.IP.To4() != nil.
IsV4(network) == Len(network.IP) = 4

\* router.go:70-104: the fields after AddRoute and the error it returns.
AddRoute(r, cidr, routeType) ==
    LET parsed == ParseCIDR(cidr)
        i == FirstIndex(r.routes, parsed.network)
    IN  IF parsed.err
           THEN [routes |-> r.routes, ipv4Count |-> r.ipv4Count,
                 ipv6Count |-> r.ipv6Count, ret |-> "invalid CIDR"]
           ELSE IF i # 0
                   THEN [routes |-> [r.routes EXCEPT ![i].Type = routeType],
                         ipv4Count |-> r.ipv4Count,
                         ipv6Count |-> r.ipv6Count, ret |-> "nil"]
                   ELSE [routes |-> Append(r.routes,
                                           [Network |-> parsed.network,
                                            Type |-> routeType]),
                         ipv4Count |-> IF IsV4(parsed.network)
                                          THEN r.ipv4Count + 1
                                          ELSE r.ipv4Count,
                         ipv6Count |-> IF IsV4(parsed.network)
                                          THEN r.ipv6Count
                                          ELSE r.ipv6Count + 1,
                         ret |-> "nil"]

\* router.go:119-120: routes[i] = routes[len-1]; routes = routes[:len-1].
RoutesAfterRemove(routes, i) ==
    SubSeq([routes EXCEPT ![i] = routes[Len(routes)]], 1, Len(routes) - 1)

\* router.go:107-135: the fields after RemoveRoute and the error it returns.
RemoveRoute(r, cidr) ==
    LET parsed == ParseCIDR(cidr)
        i == FirstIndex(r.routes, parsed.network)
    IN  IF parsed.err
           THEN [routes |-> r.routes, ipv4Count |-> r.ipv4Count,
                 ipv6Count |-> r.ipv6Count, ret |-> "invalid CIDR"]
           ELSE IF i # 0
                   THEN [routes |-> RoutesAfterRemove(r.routes, i),
                         ipv4Count |-> IF IsV4(parsed.network)
                                          THEN r.ipv4Count - 1
                                          ELSE r.ipv4Count,
                         ipv6Count |-> IF IsV4(parsed.network)
                                          THEN r.ipv6Count
                                          ELSE r.ipv6Count - 1,
                         ret |-> "nil"]
                   ELSE [routes |-> r.routes, ipv4Count |-> r.ipv4Count,
                         ipv6Count |-> r.ipv6Count, ret |-> "route not found"]

\* router.go:153: matchedRoute == nil || maskSize > matchedMaskSize, the
\* second operand.
MoreSpecific(maskSize, matchedMaskSize) == maskSize > matchedMaskSize

\* router.go:146-158: the scan from route i on; matched is the index of
\* matchedRoute, 0 for nil.
RECURSIVE Scan(_, _, _, _, _)
Scan(routes, ip, i, matched, matchedMaskSize) ==
    IF i > Len(routes)
       THEN matched
       ELSE IF /\ Contains(routes[i].Network, ip)
               /\ \/ matched = 0
                  \/ MoreSpecific(routes[i].Network.Ones, matchedMaskSize)
               THEN Scan(routes, ip, i + 1, i, routes[i].Network.Ones)
               ELSE Scan(routes, ip, i + 1, matched, matchedMaskSize)

\* router.go:138-166.
GetRoute(r, ip) ==
    LET matched == Scan(r.routes, ip, 1, 0, 0)
    IN  IF matched # 0 THEN r.routes[matched].Type ELSE "RouteTypeInternet"

\* router.go:189-198.
ClearRoutes(r) ==
    [routes |-> <<>>, ipv4Count |-> 0, ipv6Count |-> 0, ret |-> "nil"]

\* The addresses of the table.
V6Zero == [i \in 1..16 |-> 0]
LinkLocalV6 == [V6Zero EXCEPT ![1] = 254, ![2] = 128]

\* router.go:54-67: the calls of addPrivateNetworkRoutes, in order.
DefaultRoutes ==
    << <<[IP |-> <<10, 0, 0, 0>>, Ones |-> 8], "RouteTypeTUN">>,
       <<[IP |-> <<172, 16, 0, 0>>, Ones |-> 12], "RouteTypeTUN">>,
       <<[IP |-> <<192, 168, 0, 0>>, Ones |-> 16], "RouteTypeTUN">>,
       <<[IP |-> <<169, 254, 0, 0>>, Ones |-> 16], "RouteTypeTUN">>,
       <<[IP |-> LinkLocalV6, Ones |-> 10], "RouteTypeTUN">>,
       <<[IP |-> <<0, 0, 0, 0>>, Ones |-> 0], "RouteTypeInternet">>,
       <<[IP |-> V6Zero, Ones |-> 0], "RouteTypeInternet">> >>

RECURSIVE AddAll(_, _)
AddAll(r, calls) ==
    IF calls = <<>>
       THEN r
       ELSE AddAll(AddRoute(r, Head(calls)[1], Head(calls)[2]), Tail(calls))

\* router.go:41-51: NewRouter.
NewRouter ==
    LET r == AddAll(NoRouter, DefaultRoutes)
    IN  [NoRouter EXCEPT !.routes = r.routes, !.ipv4Count = r.ipv4Count,
                         !.ipv6Count = r.ipv6Count]

\* The CIDR strings of the calls: 10.0.0.0/8, 10.1.2.3/16 (the network
\* 10.1.0.0/16), 0.0.0.0/0, ::/0 and 10.0.0.0/33, which does not parse.
CIDRs ==
    {[IP |-> <<10, 0, 0, 0>>, Ones |-> 8],
     [IP |-> <<10, 1, 2, 3>>, Ones |-> 16],
     [IP |-> <<0, 0, 0, 0>>, Ones |-> 0],
     [IP |-> V6Zero, Ones |-> 0],
     [IP |-> <<10, 0, 0, 0>>, Ones |-> 33]}

RouteTypes == {"RouteTypeTUN", "RouteTypeInternet"}

\* The addresses classified: 10.1.2.3, 8.8.8.8 and fe80::1.
IPs == {<<10, 1, 2, 3>>, <<8, 8, 8, 8>>, [LinkLocalV6 EXCEPT ![16] = 1]}

RouterInit ==
    /\ ClientInit /\ ~c_reconnect
    /\ ServerInit
    /\ PacketIdle
    /\ router = NewRouter
    /\ tlsc = NoTLSConn

\* The record after a call that left the fields as in after and returned ret.
RouterAfter(call, arg, after, ret) ==
    [routes |-> after.routes, ipv4Count |-> after.ipv4Count,
     ipv6Count |-> after.ipv6Count, Ops |-> router.Ops + 1,
     Call |-> call, Arg |-> arg, Ret |-> ret]

CallAddRoute ==
    /\ router.Ops < MaxOps
    /\ \E cidr \in CIDRs, routeType \in RouteTypes :
          router' = RouterAfter("AddRoute", <<cidr, routeType>>,
                                AddRoute(router, cidr, routeType),
                                AddRoute(router, cidr, routeType).ret)
    /\ UNCHANGED <<clientVars, serverVars, packetVars, tlsVars>>

CallRemoveRoute ==
    /\ router.Ops < MaxOps
    /\ \E cidr \in CIDRs :
          router' = RouterAfter("RemoveRoute", <<cidr>>,
                                RemoveRoute(router, cidr),
                                RemoveRoute(router, cidr).ret)
    /\ UNCHANGED <<clientVars, serverVars, packetVars, tlsVars>>

CallClearRoutes ==
    /\ router.Ops < MaxOps
    /\ router' = RouterAfter("ClearRoutes", <<>>, ClearRoutes(router), "nil")
    /\ UNCHANGED <<clientVars, serverVars, packetVars, tlsVars>>

CallGetRoute ==
    /\ router.Ops < MaxOps
    /\ \E ip \in IPs :
          router' = RouterAfter("GetRoute", <<ip>>, router,
                                GetRoute(router, ip))
    /\ UNCHANGED <<clientVars, serverVars, packetVars, tlsVars>>

RouterNext ==
    \/ CallAddRoute
    \/ CallRemoveRoute
    \/ CallClearRoutes
    \/ CallGetRoute

RouterSpec == RouterInit /\ [][RouterNext]_vars

\* ======================================================= the TLS connection
\* tlsc.proc[p] is the call goroutine p is in: pc is its place, after says
\* that a Close had returned when the call was made, ret is what it returned
\* ("none" until it returns) and io that it called the method of t.conn.
TLSInit ==
    /\ ClientInit /\ ~c_reconnect
    /\ ServerInit
    /\ PacketIdle
    /\ router = NoRouter
    /\ tlsc = NoTLSConn

\* The step of goroutine p that makes the call.
TLSCalled(p) ==
    /\ tlsc.calls < MaxTLSCalls
    /\ tlsc.proc[p].pc = "idle"
    /\ tlsc' = [tlsc EXCEPT !.calls = @ + 1,
                            !.proc[p] = [pc |-> "lock",
                                         after |-> tlsc.closeReturned,
                                         ret |-> "none", io |-> FALSE]]

\* router.go:390: the early return of Close.
CloseReturnsEarly(closed) == closed

\* router.go:394: t.closed = true.
ClosedAfterClose == TRUE

\* router.go:386.
CloseCall(p) ==
    /\ TLSCalled(p)
    /\ UNCHANGED <<clientVars, serverVars, packetVars, routerVars>>

\* router.go:387: t.closeLock.Lock().
CloseLock(p) ==
    /\ tlsc.proc[p].pc = "lock"
    /\ tlsc.closeLock = "none"
    /\ tlsc' = [tlsc EXCEPT !.closeLock = p, !.proc[p].pc = "check"]
    /\ UNCHANGED <<clientVars, serverVars, packetVars, routerVars>>

\* router.go:390-392: closed already, return nil (and unlock, router.go:388).
CloseEarly(p) ==
    /\ tlsc.proc[p].pc = "check"
    /\ CloseReturnsEarly(tlsc.closed)
    /\ tlsc' = [tlsc EXCEPT !.closeLock = "none", !.closeReturned = TRUE,
                            !.proc[p].pc = "idle", !.proc[p].ret = "nil"]
    /\ UNCHANGED <<clientVars, serverVars, packetVars, routerVars>>

\* router.go:394.
CloseSet(p) ==
    /\ tlsc.proc[p].pc = "check"
    /\ ~CloseReturnsEarly(tlsc.closed)
    /\ tlsc' = [tlsc EXCEPT !.closed = ClosedAfterClose, !.proc[p].pc = "close"]
    /\ UNCHANGED <<clientVars, serverVars, packetVars, routerVars>>

\* router.go:396: t.conn.Close(), whose error Close returns; then the
\* deferred unlock.
CloseConn(p) ==
    /\ tlsc.proc[p].pc = "close"
    /\ \E err \in {"nil", "error"} :
          tlsc' = [tlsc EXCEPT !.connCloses = @ + 1, !.closeLock = "none",
                               !.closeReturned = TRUE,
                               !.proc[p] = [@ EXCEPT !.pc = "idle",
                                                     !.ret = err,
                                                     !.io = TRUE]]
    /\ UNCHANGED <<clientVars, serverVars, packetVars, routerVars>>

\* The lock of Read (router.go:363) and of Write (router.go:375).
LockOf(u) == IF u \in TLSReaders THEN "readLock" ELSE "writeLock"

\* router.go:362 and router.go:374.
IOCall(u) ==
    /\ TLSCalled(u)
    /\ UNCHANGED <<clientVars, serverVars, packetVars, routerVars>>

\* router.go:363 and router.go:375.
IOLock(u) ==
    /\ tlsc.proc[u].pc = "lock"
    /\ tlsc[LockOf(u)] = "none"
    /\ tlsc' = [tlsc EXCEPT ![LockOf(u)] = u, !.proc[u].pc = "check"]
    /\ UNCHANGED <<clientVars, serverVars, packetVars, routerVars>>

\* The values the load of t.closed at router.go:366 and router.go:378 can
\* give.  The store of router.go:394 is made under closeLock and the load
\* under readLock or writeLock, so nothing orders a load before the Close
\* has returned: such a load may still give the old value.
ClosedSeen(u) ==
    IF tlsc.proc[u].after THEN {tlsc.closed} ELSE {tlsc.closed, FALSE}

\* router.go:366-368 and router.go:378-380: return io.ErrClosedPipe.
IOClosed(u) ==
    /\ tlsc.proc[u].pc = "check"
    /\ TRUE \in ClosedSeen(u)
    /\ tlsc' = [tlsc EXCEPT ![LockOf(u)] = "none",
                            !.proc[u].pc = "idle",
                            !.proc[u].ret = "ErrClosedPipe"]
    /\ UNCHANGED <<clientVars, serverVars, packetVars, routerVars>>

\* The check found the connection open.
IOOpen(u) ==
    /\ tlsc.proc[u].pc = "check"
    /\ FALSE \in ClosedSeen(u)
    /\ tlsc' = [tlsc EXCEPT !.proc[u].pc = "io"]
    /\ UNCHANGED <<clientVars, serverVars, packetVars, routerVars>>

\* router.go:370 and router.go:382: t.conn.Read(b), t.conn.Write(b), which
\* fail on a connection that was closed.
IOConn(u) ==
    /\ tlsc.proc[u].pc = "io"
    /\ \E res \in IF tlsc.connCloses > 0 THEN {"closed conn"}
                  ELSE {"ok", "error"} :
          tlsc' = [tlsc EXCEPT ![LockOf(u)] = "none",
                               !.proc[u] = [@ EXCEPT !.pc = "idle",
                                                     !.ret = res,
                                                     !.io = TRUE]]
    /\ UNCHANGED <<clientVars, serverVars, packetVars, routerVars>>

TLSNext ==
    \/ \E p \in TLSClosers :
          \/ CloseCall(p)
          \/ CloseLock(p)
          \/ CloseEarly(p)
          \/ CloseSet(p)
          \/ CloseConn(p)
    \/ \E u \in TLSUsers :
          \/ IOCall(u)
          \/ IOLock(u)
          \/ IOClosed(u)
          \/ IOOpen(u)
          \/ IOConn(u)

TLSSpec == TLSInit /\ [][TLSNext]_vars

\* The same connection with two goroutines in Read and two in Write.
TLSPairNext ==
    \/ \E p \in TLSClosers :
          \/ CloseCall(p)
          \/ CloseLock(p)
          \/ CloseEarly(p)
          \/ CloseSet(p)
          \/ CloseConn(p)
    \/ \E u \in TLSReaders \cup TLSWriters :
          \/ IOCall(u)
          \/ IOLock(u)
          \/ IOClosed(u)
          \/ IOOpen(u)
          \/ IOConn(u)

TLSPairSpec == TLSInit /\ [][TLSPairNext]_vars

\* ============================================================ client claims

\* C1: Client.Stop on a running client clears the run flag, closes the stop
\* channel, closes the transport it finds and clears the field, and stops
\* the virtual interface (a running device is marked stopped and its
\* descriptor is closed), each at the step of Stop that does it; when Stop
\* reaches its return the flag is clear and the channel closed.  Stop goes
\* past its guard only on a running client, so a Stop that follows a Stop is
\* the no-op.
C1_StopContract ==
    [][ /\ (stopPc = "idle" /\ stopPc' = "close") => (c_isRunning /\ ~c_isRunning')
        /\ (stopPc = "close" /\ stopPc' = "conncheck") => c_stopClosed'
        /\ (stopPc = "connclose" /\ stopPc' = "connnil") => tlsClosed'[c_conn]
        /\ (stopPc = "connnil" /\ stopPc' = "tuncheck") => c_conn' = 0
        /\ (stopPc = "tuncheck" /\ stopPc' = "ret" /\ c_tunDevice # 0) =>
              /\ ~tunIsRunning'[c_tunDevice]
              /\ tunIsRunning[c_tunDevice] => tunFd'[c_tunDevice] = "closed"
        /\ (stopPc' = "ret") => (~c_isRunning' /\ c_stopClosed')
      ]_vars

\* C1 witness: a Stop on a connected client is about to return, having closed
\* the transport and the interface.
C1_Witness ==
    /\ stopPc = "ret"
    /\ nConns = 1 /\ tlsClosed[1] /\ c_conn = 0
    /\ tunFd[1] = "closed"

\* C3 (as claimed): whenever the reconnect loop has ended and the engine is
\* not running, with no Stop in progress, the interface has been stopped and
\* no transport is open.
C3_CleanStopped ==
    (loopPc[1] = "done" /\ ~c_isRunning /\ stopPc = "idle")
        => /\ \A k \in Callers : tunFd[k] # "open" /\ ~tunIsRunning[k]
           /\ \A t \in 1..nConns : tlsClosed[t]

\* C4: with reconnection enabled and MaxRetries = N > 0, the loop gives up
\* after a failed attempt exactly when that attempt is failure N + 1 of the
\* current streak (the initial attempt and N retries), and giving up leaves
\* the run flag false.
C4_ExactRetries ==
    [][ \A k \in Callers :
          (loopPc[k] = "failed" /\ loopPc'[k] # "failed"
              /\ c_reconnect /\ c_maxRetries > 0)
          => IF loopFails[k] = c_maxRetries + 1
                THEN loopPc'[k] = "defer" /\ ~c_isRunning'
                ELSE loopPc'[k] = "delay" /\ loopFails[k] <= c_maxRetries
      ]_vars

\* C4 witness: N = 2, and the loop has given up after exactly three failures.
C4_Witness ==
    /\ c_reconnect /\ c_maxRetries = 2
    /\ loopFails[1] = 3 /\ loopPc[1] = "defer" /\ ~c_isRunning /\ ~c_stopClosed

\* C5: with reconnection enabled and MaxRetries = 0, a loop that has ended,
\* or a run flag that is clear after the loop was spawned, is the work of
\* Stop: failed attempts never end the loop and never clear the flag.
C5_Unlimited ==
    (c_reconnect /\ c_maxRetries = 0) =>
        \A k \in Callers :
            (loopPc[k] \in {"defer", "done"} \/ (loopPc[k] # "none" /\ ~c_isRunning))
                => (c_stopClosed \/ stopPc = "close")

\* C5 witness: the loop is still retrying after the largest number of
\* consecutive failures the environment produces.
C5_Witness ==
    /\ c_reconnect /\ c_maxRetries = 0
    /\ loopFails[1] = MaxFails /\ loopPc[1] = "delay" /\ c_isRunning

\* C6: with reconnection disabled the loop never waits to retry and never
\* counts a retry; its step after a failed attempt, and its step after a pump
\* error on a client that is still running, is the return with the run flag
\* false.
C6_NoReconnect ==
    [][ ~c_reconnect =>
          \A k \in Callers :
             /\ loopPc'[k] \notin {"delay", "redelay"}
             /\ c_retries' = 0
             /\ loopFails'[k] <= 1
             /\ (loopPc[k] \in {"failed", "errrun"} /\ loopPc'[k] # loopPc[k])
                   => (loopPc'[k] = "defer" /\ ~c_isRunning')
      ]_vars

\* C6 witness: reconnection is off, a connection was established, a pump
\* failed, and the loop has ended with the flag false although Stop was
\* never called.
C6_Witness ==
    /\ ~c_reconnect /\ nConns = 1
    /\ loopPc[1] = "done" /\ ~c_isRunning /\ ~c_stopClosed

\* C7 (as claimed): once the reconnect loop has terminated, the Connect call
\* that spawned it has returned or is about to: the stop channel is closed,
\* or a Stop in progress is at the statement that closes it.
C7_ConnectReturns ==
    \A k \in Callers :
        loopPc[k] = "done" =>
            (connectPc[k] = "returned" \/ c_stopClosed \/ stopPc = "close")

\* C7 (permanence): the state that refutes C7 is never left: with the loop
\* gone, the flag clear and no Stop in progress, nothing closes the stop
\* channel or sends on it, so the Connect call stays blocked.
C7_HangIsPermanent ==
    [][ (loopPc[1] = "done" /\ connectPc[1] \in {"spawned", "wait"}
            /\ ~c_stopClosed /\ ~c_isRunning /\ stopPc = "idle")
        => (loopPc'[1] = "done" /\ connectPc'[1] \in {"spawned", "wait"}
            /\ ~c_stopClosed' /\ ~c_isRunning' /\ stopPc' = "idle") ]_vars

C2_StopSteps ==
    [][ /\ (srvStopPc[1] = "idle" /\ srvStopPc'[1] = "clear") => s_isRunning
        /\ (srvStopPc[1] = "clear" /\ srvStopPc'[1] = "close") => ~s_isRunning'
        /\ (srvStopPc[1] = "close" /\ srvStopPc'[1] = "listener") => s_stopClosed'
        /\ (srvStopPc[1] = "listener" /\ srvStopPc'[1] = "sweep") => s_listener' = "closed"
        /\ (srvStopPc[1] = "sweep" /\ srvStopPc'[1] = "tun") =>
              /\ \A i \in s_clients : peerConn'[i] = "closed"
              /\ s_clients' = {}
        /\ (srvStopPc[1] = "tun" /\ srvStopPc'[1] = "ret") =>
              (~s_tunIsRunning' /\ s_tunFd' = "closed")
      ]_vars

\* C2 (as claimed): when Server.Stop returns, the registry is empty.
C2_RegistryEmptyAtReturn ==
    srvStopPc[1] = "ret" => s_clients = {}

\* C9: Server.Start has returned successfully only if the stop channel has
\* been closed, which only Stop does; and whenever a Stop call has gone past
\* its guard (the server was running), the Start call eventually returns.
C9_StartBlocksUntilStop ==
    /\ [](srvStartPc = "returned" => s_stopClosed)
    /\ [][(~s_stopClosed /\ s_stopClosed') => srvStopPc[1] = "close"]_vars
    /\ (srvStopPc[1] \in {"clear", "close"}) ~> (srvStartPc = "returned")

\* C9 witness: the Start call has returned after a Stop that found peers
\* connected.
C9_Witness ==
    /\ srvStartPc = "returned" /\ srvStopPc[1] = "idle"
    /\ s_stopClosed /\ nAccepted = MaxPeers

\* C10 (as claimed): once Stop has closed the stop channel, no peer is added
\* to the registry.
C10_NoPeerAfterCancel ==
    [][ s_stopClosed => s_clients' \subseteq s_clients ]_vars

\* C11: once a Stop call has gone past its guard on a running server, the
\* accept loop, the interface-reader loop and every peer read loop eventually
\* have all terminated.
C11_LoopsTerminate ==
    (srvStopPc[1] \in {"clear", "close"}) ~>
        (/\ acceptPc = "done"
         /\ tunReaderPc = "done"
         /\ \A i \in Peers : handlerPc[i] \in {"none", "done"})

\* C11 witness: Stop found every peer connected, one of them blocked in its
\* read, and every loop has ended.
C11_Witness ==
    /\ s_stopClosed /\ srvStopPc[1] = "idle"
    /\ acceptPc = "done" /\ tunReaderPc = "done"
    /\ nAccepted = MaxPeers
    /\ \A i \in Peers : handlerPc[i] = "done" /\ peerConn[i] = "closed"

\* C12: when Start has returned an error because the interface could not be
\* opened or the listener could not be bound, the server is not running, has
\* no listener, neither the accept loop nor the interface-reader loop was
\* spawned, and no interface is left running or open.
C12_FailedStartLeavesNothing ==
    srvStartPc = "failed" =>
        /\ ~s_isRunning
        /\ s_listener = "nil"
        /\ acceptPc = "none"
        /\ tunReaderPc = "none"
        /\ \A i \in Peers : handlerPc[i] = "none"
        /\ ~s_tunIsRunning
        /\ s_tunFd # "open"

\* C12 witness: Start failed at the listener after it had opened the
\* interface, which is now closed.
C12_Witness ==
    srvStartPc = "failed" /\ s_tunFd = "closed" /\ ~s_tunIsRunning

\* C13: the step in which a handler's handshake fails closes that handler's
\* connection and changes nothing else: the registry, the run flag, the
\* listener, and every other connection and handler stay as they were, and the
\* failed peer is not in the registry.
C13_FailedHandshakeFrame ==
    [][\A i \in Peers :
          (handlerPc[i] = "handshake" /\ handlerPc'[i] = "done") =>
              /\ peerConn'[i] = "closed"
              /\ i \notin s_clients'
              /\ s_clients' = s_clients
              /\ s_isRunning' = s_isRunning
              /\ s_listener' = s_listener
              /\ s_stopClosed' = s_stopClosed
              /\ \A k \in Peers \ {i} :
                    /\ peerConn'[k] = peerConn[k]
                    /\ handlerPc'[k] = handlerPc[k]]_vars

\* C13 witness: the second connection failed its handshake on a running
\* server while the first peer is registered with its transport open.
C13_Witness ==
    /\ s_isRunning /\ s_listener = "open"
    /\ handlerPc[2] = "done" /\ peerConn[2] = "closed" /\ 2 \notin s_clients
    /\ 1 \in s_clients /\ peerConn[1] = "open" /\ handlerPc[1] = "read"

\* C14: on a running server, the step in which the handler of a disconnected
\* peer deletes its entry lowers the registry count by exactly one; every
\* other peer stays registered, with its transport and its read loop as they
\* were.
C14_DisconnectRemovesOne ==
    [][\A i \in Peers :
          (s_isRunning /\ handlerPc[i] = "dereg" /\ handlerPc'[i] = "done") =>
              /\ i \in s_clients
              /\ s_clients' = s_clients \ {i}
              /\ Cardinality(s_clients') = Cardinality(s_clients) - 1
              /\ \A k \in Peers \ {i} :
                    /\ peerConn'[k] = peerConn[k]
                    /\ handlerPc'[k] = handlerPc[k]]_vars

\* C14 witness: of two registered peers the first has disconnected and been
\* removed; the second is still registered, its transport open, in its read.
C14_Witness ==
    /\ s_isRunning /\ nAccepted = 2
    /\ handlerPc[1] = "done" /\ peerConn[1] = "open"
    /\ s_clients = {2} /\ peerConn[2] = "open" /\ handlerPc[2] = "read"

\* C15: no two peers that are in the registry at the same time have the same
\* assigned tunnel address.
C15_AddressesDistinct ==
    \A i \in s_clients : \A k \in s_clients :
        i # k => TunIPOf(i) # TunIPOf(k)

\* ============================================================ packet claims
\* C18: on a v4 packet with TTL at least 2 and a correct header checksum,
\* ModifyTTL returns true, lowers the TTL byte by exactly 1, changes no byte
\* other than the TTL and the checksum, and leaves a checksum that a full
\* one's-complement sum over the modified header validates; it equals the
\* checksum recomputed from scratch, except that it is 0xFFFF where the
\* recomputation gives 0x0000, the other encoding of the same value.
C18_TTLChecksumValidates ==
    (/\ pktCall = "ModifyTTL"
     /\ pktIn.Type = "IPv4"
     /\ ByteAt(pktIn.Data, 8) >= 2
     /\ Uint16At(pktIn.Data, 10) = FullChecksum(pktIn.Data)) =>
        /\ pktRet = "true"
        /\ ByteAt(pktOut.Data, 8) = ByteAt(pktIn.Data, 8) - 1
        /\ ByteAt(pktOut.Data, 9) = ByteAt(pktIn.Data, 9)
        /\ \A k \in (1..Len(pktIn.Data)) \ {5, 6} :
               pktOut.Data[k] = pktIn.Data[k]
        /\ Len(pktOut.Data) = Len(pktIn.Data)
        /\ Validates(pktOut.Data)
        /\ \/ Uint16At(pktOut.Data, 10) = FullChecksum(pktOut.Data)
           \/ /\ Uint16At(pktOut.Data, 10) = 65535
              /\ FullChecksum(pktOut.Data) = 0

\* C18 witness: the addition carried out of 16 bits (the old checksum was
\* 0xFF00 or more) and the call returned true.
C18_Witness ==
    /\ pktCall = "ModifyTTL" /\ pktRet = "true"
    /\ pktIn.Type = "IPv4"
    /\ Uint16At(pktIn.Data, 10) = FullChecksum(pktIn.Data)
    /\ Uint16At(pktIn.Data, 10) >= 65280
    /\ Uint16At(pktOut.Data, 10) <= 256

\* C19: on a v4 packet whose TTL, or a v6 packet whose hop limit, is 0 or 1,
\* ModifyTTL returns false and the buffer is unchanged; on a packet of any
\* other type it returns false as well.
C19_ExpiredUnchanged ==
    pktCall = "ModifyTTL" =>
        /\ (pktIn.Type = "IPv4" /\ ByteAt(pktIn.Data, 8) <= 1) =>
               (pktRet = "false" /\ pktOut = pktIn)
        /\ (pktIn.Type = "IPv6" /\ ByteAt(pktIn.Data, 7) <= 1) =>
               (pktRet = "false" /\ pktOut = pktIn)
        /\ pktIn.Type \notin {"IPv4", "IPv6"} => pktRet = "false"

\* C19 witness: a v4 packet with TTL 1 and a correct checksum has been
\* refused.
C19_Witness ==
    /\ pktCall = "ModifyTTL" /\ pktRet = "false"
    /\ pktIn.Type = "IPv4" /\ ByteAt(pktIn.Data, 8) = 1
    /\ Validates(pktIn.Data)
    /\ pktOut = pktIn

\* C20: after the source or the destination of a v4 packet with a correct
\* header checksum has been replaced by a 4-byte address, the checksum field
\* equals the header checksum recomputed from scratch over the modified
\* header.
C20_AddressChecksumExact ==
    (/\ pktCall \in {"ReplaceSourceAddress", "ReplaceDestinationAddress"}
     /\ pktIn.Type = "IPv4"
     /\ Uint16At(pktIn.Data, 10) = FullChecksum(pktIn.Data)
     /\ Len(pktArg) = 4) =>
        /\ pktRet = "nil"
        /\ Uint16At(pktOut.Data, 10) = FullChecksum(pktOut.Data)

\* ======================================================== forwarding claims
\* C16: a packet that went from the client's interface to the server's
\* interface was parseable with a hop limit of at least 2, and arrives with
\* the hop limit lower by exactly 1 and with every other byte (addresses and
\* payload among them) unchanged, the v4 header checksum excepted.
C16_EndToEndDecrementsOnce ==
    fwdAt = "server tun" =>
        LET sent == ParsePacket(fwdIn)
            got  == ParsePacket(fwdBuf)
            hopWord  == IF sent.pkt.Type = "IPv4" THEN 5 ELSE 4
            hopOther == IF sent.pkt.Type = "IPv4" THEN 9 ELSE 6
            changed  == IF sent.pkt.Type = "IPv4" THEN {5, 6} ELSE {4}
        IN  /\ ~sent.err /\ ~got.err
            /\ got.pkt.Type = sent.pkt.Type
            /\ HopLimit(sent.pkt) >= 2
            /\ HopLimit(got.pkt) = HopLimit(sent.pkt) - 1
            /\ ByteAt(fwdBuf, hopOther) = ByteAt(fwdIn, hopOther)
            /\ Len(fwdBuf) = Len(fwdIn)
            /\ \A k \in (1..Len(fwdIn)) \ changed : fwdBuf[k] = fwdIn[k]
            /\ DestinationOf(got.pkt) = DestinationOf(sent.pkt)

\* C16 witness: a v4 packet read off the client's interface with TTL 2 is on
\* the server's interface with TTL 1.
C16_Witness ==
    /\ fwdAt = "server tun"
    /\ ParsePacket(fwdIn).pkt.Type = "IPv4"
    /\ ByteAt(fwdIn, 8) = 2
    /\ ByteAt(fwdBuf, 8) = 1

\* C17: every forwarding step that writes a packet out, on either engine and
\* in either direction, writes it with the hop limit one lower than it read
\* it, and writes no packet whose hop limit was 0 or 1.
C17_EveryStepDecrements ==
    [][(fwdAt' # fwdAt /\ fwdAt' # "dropped") =>
          /\ ~ParsePacket(fwdBuf).err
          /\ HopLimit(ParsePacket(fwdBuf).pkt) >= 2
          /\ HopLimit(ParsePacket(fwdBuf').pkt)
                = HopLimit(ParsePacket(fwdBuf).pkt) - 1]_vars

\* ============================================================ router claims
\* The routes of the table that contain the address.
C21_Containing(ip) ==
    {i \in 1..Len(router.routes) : Contains(router.routes[i].Network, ip)}

\* C21: GetRoute returns RouteTypeInternet when no route contains the
\* address, and otherwise the type of the first-scanned route among the
\* containing routes of largest mask length.
C21_LongestPrefixMatch ==
    router.Call = "GetRoute" =>
        LET ip == router.Arg[1]
            containing == C21_Containing(ip)
            longest == {i \in containing :
                           \A k \in containing :
                               router.routes[k].Network.Ones
                                   <= router.routes[i].Network.Ones}
        IN  IF containing = {}
               THEN router.Ret = "RouteTypeInternet"
               ELSE \E i \in longest :
                       /\ \A k \in longest : i <= k
                       /\ router.Ret = router.routes[i].Type

\* C21 witness: 10.1.2.3 was classified by the /16 route although the /8
\* route, of the other type, was scanned first.
C21_Witness ==
    /\ router.Call = "GetRoute"
    /\ router.Arg = << <<10, 1, 2, 3>> >>
    /\ router.Ret = "RouteTypeInternet"
    /\ \E i, k \in 1..Len(router.routes) :
          /\ i < k
          /\ router.routes[i] = [Network |-> [IP |-> <<10, 0, 0, 0>>, Ones |-> 8],
                                 Type |-> "RouteTypeTUN"]
          /\ router.routes[k] = [Network |-> [IP |-> <<10, 1, 0, 0>>, Ones |-> 16],
                                 Type |-> "RouteTypeInternet"]

\* The type the table holds for a network; "none" when it has no such route.
C22_TypeOf(routes, network) ==
    IF \E i \in 1..Len(routes) : routes[i].Network = network
       THEN (CHOOSE r \in {routes[i] : i \in 1..Len(routes)} :
                 r.Network = network).Type
       ELSE "none"

C22_NoDuplicates ==
    \A i, k \in 1..Len(router.routes) :
        router.routes[i].Network = router.routes[k].Network => i = k

\* A successful AddRoute of a prefix the table has changes the type of that
\* entry where it stands and adds none; of a new prefix, appends one entry;
\* and no type of the table changes but by an AddRoute of its prefix, to the
\* type that call gave.
C22_AddRouteStep ==
    LET network == ParseCIDR(router'.Arg[1]).network
        added == router'.Call = "AddRoute" /\ router'.Ret = "nil"
        networks == {router.routes[i].Network : i \in 1..Len(router.routes)}
    IN  /\ added =>
              /\ C22_TypeOf(router'.routes, network) = router'.Arg[2]
              /\ \A i \in 1..Len(router.routes) :
                     router.routes[i].Network = network =>
                         router'.routes =
                             [router.routes EXCEPT ![i].Type = router'.Arg[2]]
              /\ network \notin networks =>
                     router'.routes =
                         Append(router.routes,
                                [Network |-> network, Type |-> router'.Arg[2]])
        /\ \A n \in networks :
              /\ C22_TypeOf(router'.routes, n) # "none"
              /\ C22_TypeOf(router'.routes, n) # C22_TypeOf(router.routes, n)
              => added /\ network = n

\* C22: from NewRouter's table, after any sequence of AddRoute, RemoveRoute
\* and ClearRoutes no two routes have the same prefix; AddRoute of a prefix
\* already there replaces the type in place without a new entry, so the type
\* stored for a prefix is that of the most recent AddRoute of it.
C22_UniquePrefixes == []C22_NoDuplicates /\ [][C22_AddRouteStep]_vars

\* C22 witness: AddRoute("10.0.0.0/8", Internet) on the default table
\* changed the first entry and left seven routes, five of them IPv4.
C22_Witness ==
    /\ router.Call = "AddRoute"
    /\ router.Arg = <<[IP |-> <<10, 0, 0, 0>>, Ones |-> 8], "RouteTypeInternet">>
    /\ Len(router.routes) = 7
    /\ router.routes[1] = [Network |-> [IP |-> <<10, 0, 0, 0>>, Ones |-> 8],
                           Type |-> "RouteTypeInternet"]
    /\ router.ipv4Count = 5

C23_RouteSet(routes) == {routes[i] : i \in 1..Len(routes)}

\* Longest-prefix match over a set of routes with distinct prefixes.
C23_Classify(routeSet, ip) ==
    LET containing == {r \in routeSet : Contains(r.Network, ip)}
    IN  IF containing = {}
           THEN "RouteTypeInternet"
           ELSE (CHOOSE r \in containing :
                     \A q \in containing : q.Network.Ones <= r.Network.Ones).Type

\* C23: RemoveRoute of a prefix the table has removes that route and no
\* other, every other route stays once with its type, and addresses are then
\* classified by longest-prefix match over the routes that remain;
\* RemoveRoute of a prefix the table does not have returns "route not found"
\* and leaves the table as it was.
C23_RemoveRouteFrame ==
    [][router'.Call = "RemoveRoute" /\ router'.Ops = router.Ops + 1 =>
          LET parsed == ParseCIDR(router'.Arg[1])
              before == C23_RouteSet(router.routes)
              gone == {r \in before : r.Network = parsed.network}
          IN  IF ~parsed.err /\ gone # {}
                 THEN /\ router'.Ret = "nil"
                      /\ Cardinality(gone) = 1
                      /\ C23_RouteSet(router'.routes) = before \ gone
                      /\ Len(router'.routes) = Len(router.routes) - 1
                      /\ \A ip \in IPs :
                             GetRoute(router', ip)
                                 = C23_Classify(before \ gone, ip)
                 ELSE /\ router'.Ret = IF parsed.err THEN "invalid CIDR"
                                       ELSE "route not found"
                      /\ router'.routes = router.routes
                      /\ router'.ipv4Count = router.ipv4Count
                      /\ router'.ipv6Count = router.ipv6Count]_vars

\* C23 witness: RemoveRoute("10.0.0.0/8") on the default table put the last
\* route, ::/0, in the first place, left six routes, and 10.1.2.3 is now
\* classified by 0.0.0.0/0.
C23_Witness ==
    /\ router.Call = "RemoveRoute"
    /\ router.Arg = <<[IP |-> <<10, 0, 0, 0>>, Ones |-> 8]>>
    /\ router.Ret = "nil"
    /\ Len(router.routes) = 6
    /\ router.routes[1] = [Network |-> [IP |-> V6Zero, Ones |-> 0],
                           Type |-> "RouteTypeInternet"]
    /\ GetRoute(router, <<10, 1, 2, 3>>) = "RouteTypeInternet"

\* ============================================================ TLSConn claims
\* C24: a Read or Write called after a Close has returned, from whichever
\* goroutine, returns io.ErrClosedPipe and never calls the method of the
\* closed t.conn.
C24_NoIOAfterClose ==
    \A u \in TLSUsers :
        tlsc.proc[u].after =>
            /\ tlsc.proc[u].pc # "io"
            /\ ~tlsc.proc[u].io
            /\ tlsc.proc[u].ret \in {"none", "ErrClosedPipe"}

\* C24 witness: Write, called after the Close of Stop had closed the
\* connection, has returned io.ErrClosedPipe.
C24_Witness ==
    /\ tlsc.proc["Write"].after
    /\ tlsc.proc["Write"].ret = "ErrClosedPipe"
    /\ tlsc.proc["Stop"].io
    /\ tlsc.connCloses = 1

C25_ClosedOnce ==
    /\ tlsc.connCloses <= 1
    /\ tlsc.closeReturned => tlsc.closed /\ tlsc.connCloses = 1

C25_CloseStep ==
    /\ tlsc.closed => tlsc'.closed
    /\ tlsc'.connCloses # tlsc.connCloses => tlsc.connCloses = 0 /\ tlsc.closed
    /\ \A p \in TLSClosers :
          /\ tlsc.proc[p].pc # "idle"
          /\ tlsc'.proc[p].pc = "idle"
          /\ tlsc.proc[p].after
          => tlsc'.proc[p].ret = "nil" /\ ~tlsc'.proc[p].io

\* C25: over sequential and concurrent calls of Close on one TLSConn,
\* t.conn.Close is called once, t.closed goes from false to true and never
\* back, and a Close called after one has returned returns nil without
\* calling t.conn.Close.
C25_CloseIdempotent == []C25_ClosedOnce /\ [][C25_CloseStep]_vars

\* C25 witness: both goroutines have returned from Close, the one that came
\* second with nil and without closing t.conn, which was closed once.
C25_Witness ==
    /\ tlsc.proc["Stop"].pc = "idle" /\ tlsc.proc["Stop"].io
    /\ tlsc.proc["runMainLoop"].pc = "idle"
    /\ tlsc.proc["runMainLoop"].ret = "nil"
    /\ ~tlsc.proc["runMainLoop"].io
    /\ ~tlsc.proc["runMainLoop"].after
    /\ tlsc.connCloses = 1

\* ======================================================= concurrent Stop
\* C26 (as claimed): over every interleaving of two overlapping Stop calls
\* on a running server the stop channel is closed once, never a second
\* time, and the interface descriptor is closed once: no Stop call dies of
\* closing the closed channel, and two calls that both got past the guard
\* both return with the descriptor closed.
C26_TwoStopsSafe ==
    /\ s_panic # "close of closed channel"
    /\ (\A j \in Stoppers : srvStopPc[j] = "ret") => s_tunFd = "closed"

\* ==================================================== reconnect loop claims
\* C27: when the loop has taken a pump's error off errCh it closes the
\* transport the field names and clears the field; then, on an engine that
\* is no longer running it returns without reconnecting; on a running one
\* with reconnection enabled it waits in the select on the delay timer and
\* the stop channel, and goes round to a new attempt when the timer fires or
\* returns when the stop channel is ready; with reconnection disabled it
\* clears the run flag and returns.  A new attempt is made only from the top
\* of the loop, on a set run flag.
C27_PumpErrorHandling ==
    [][ \A k \in Callers :
          /\ (loopPc[k] = "errconn" /\ loopPc'[k] # "errconn") =>
                loopPc'[k] = IF c_conn # 0 THEN "errclose" ELSE "errrun"
          /\ (loopPc[k] = "errclose" /\ loopPc'[k] # "errclose") =>
                /\ tlsClosed'[c_conn]
                /\ loopPc'[k] = "errnil"
          /\ (loopPc[k] = "errnil" /\ loopPc'[k] # "errnil") =>
                /\ c_conn' = 0
                /\ loopPc'[k] = "errrun"
          /\ (loopPc[k] = "errrun" /\ loopPc'[k] # "errrun") =>
                IF ~c_isRunning
                   THEN loopPc'[k] = "defer" /\ ~c_isRunning'
                   ELSE IF c_reconnect
                           THEN loopPc'[k] = "redelay" /\ c_isRunning'
                           ELSE loopPc'[k] = "defer" /\ ~c_isRunning'
          /\ (loopPc[k] = "redelay" /\ loopPc'[k] # "redelay") =>
                \/ loopPc'[k] = "top"
                \/ loopPc'[k] = "defer" /\ c_stopClosed
          /\ (loopPc[k] # "connect" /\ loopPc'[k] = "connect") =>
                loopPc[k] = "top" /\ c_isRunning
      ]_vars

\* C27 witness: on a running client with reconnection enabled the loop has
\* closed and cleared the transport after a pump's error, waited, and is at
\* its next attempt.
C27_Witness ==
    /\ c_reconnect /\ c_isRunning
    /\ nConns = 1 /\ tlsClosed[1] /\ c_conn = 0
    /\ loopPc[1] = "connect"

C28_WithinBudget ==
    (c_reconnect /\ c_maxRetries > 0) => c_retries <= c_maxRetries

C28_LoopStep ==
    /\ \A k \in Callers :
          /\ (loopPc[k] = "connect" /\ loopPc'[k] = "wait") => c_retries' = 0
          /\ (loopPc[k] = "failed" /\ loopPc'[k] = "defer"
                 /\ c_reconnect /\ c_maxRetries > 0) =>
                /\ c_retries = c_maxRetries
                /\ loopFails[k] = c_maxRetries + 1
    /\ c_retries' # c_retries =>
          \E k \in Callers :
              \/ loopPc[k] = "connect" /\ loopPc'[k] = "wait"
              \/ /\ loopPc[k] = "failed" /\ loopPc'[k] = "delay"
                 /\ c_retries' = c_retries + 1
                 /\ c_retries' = loopFails[k]

\* C28: a successful connection sets c.retries to zero, and between
\* successes the counter is the number of failed attempts that were retried;
\* with reconnection on and MaxRetries = N > 0 the counter never exceeds N,
\* and the loop gives up only with the counter at N, after N + 1 failed
\* attempts (N of them retries) that all followed the last success.
C28_BudgetRestored == []C28_WithinBudget /\ [][C28_LoopStep]_vars

\* C28 witness: N = 2; the client was connected, lost the connection, and
\* the loop has given up after three failed attempts with the counter at 2.
C28_Witness ==
    /\ c_reconnect /\ c_maxRetries = 2
    /\ nConns = 1 /\ tlsClosed[1]
    /\ c_retries = 2 /\ loopFails[1] = 3
    /\ loopPc[1] = "defer" /\ ~c_isRunning /\ ~c_stopClosed

\* A pump goroutine that has been started and has not returned.
LivePump(p) == pumpPc[p] \notin {"none", "done"}

\* C29 (as claimed): the client never has more than one live pump per
\* direction, also after pump errors and reconnections.
C29_OnePumpPerDirection ==
    \A d \in Dirs : Cardinality({g \in Conns : LivePump(<<g, d>>)}) <= 1

\* ======================================================== interface pump
\* C30: in handleTUNPackets every read adds the size of the packet read to
\* c.bytesOut, whether the packet parses or not, and nothing else changes the
\* counter; a packet that does not parse is not written, reports no error
\* and leaves the pump running; only a packet that parsed is written, as it
\* was read; a failed write puts one error on errCh and ends this pump,
\* leaving the other pump, the run flag and the transport as they were.
C30_UplinkPump ==
    [][ LET p == <<1, "tun">>
            read == pkt'.Reads = pkt.Reads + 1
        IN  /\ read =>
                  /\ pkt'.BytesOut = pkt.BytesOut + SizeOf(pkt'.FwdIn)
                  /\ IF ParsePacket(pkt'.FwdIn).err
                        THEN /\ pumpPc'[p] = "check"
                             /\ errCh' = errCh
                             /\ pkt'.FwdAt = "client tun"
                        ELSE pumpPc'[p] = "write"
            /\ ~read => pkt'.BytesOut = pkt.BytesOut /\ pkt'.Reads = pkt.Reads
            /\ pumpPc'[p] = "write" => ~ParsePacket(pkt'.FwdBuf).err
            /\ (pkt'.FwdAt = "uplink" /\ pkt.FwdAt # "uplink") =>
                  /\ pumpPc[p] = "write"
                  /\ pkt'.FwdBuf = pkt.FwdIn
            /\ (pumpPc[p] = "write" /\ pumpPc'[p] = "done") =>
                  /\ errCh'[1] = errCh[1] + 1
                  /\ pumpPc'[<<1, "srv">>] = pumpPc[<<1, "srv">>]
                  /\ c_isRunning' = c_isRunning
                  /\ c_conn' = c_conn /\ tlsClosed' = tlsClosed
            /\ pumpPc[p] = "done" => pumpPc'[p] = "done"
      ]_vars

\* C30 witness: the pump has read a v4 header cut short (8 bytes), which it
\* dropped, and a v4 packet (22 bytes), whose write failed; it has counted 30
\* bytes, reported one error and returned, and the other pump is running.
C30_Witness ==
    /\ pkt.Reads = 2 /\ pkt.BytesOut = 30
    /\ pkt.FwdIn = V4Packet(0, 64, 6).Data /\ pkt.FwdAt = "dropped"
    /\ pumpPc[<<1, "tun">>] = "done"
    /\ errCh[1] = 1
    /\ pumpPc[<<1, "srv">>] \notin {"none", "done"}

\* C31: in the server's read loop of a peer, a packet that fails to parse,
\* whose hop limit has expired, or whose write to the interface fails is
\* dropped and the loop goes round with the registry as it was; the loop ends
\* only when the read from the transport fails (nothing was read) or, at its
\* head, when the server is no longer running; and a packet whose hop limit
\* has expired is never written to the interface.
C31_Expired(data) ==
    LET parsed == ParsePacket(data)
    IN  ~parsed.err /\ HopLimit(parsed.pkt) <= 1

C31_PeerRound(i) ==
    IF pkt'.Reads = pkt.Reads
       THEN handlerPc'[i] = "dereg"
       ELSE /\ handlerPc'[i] = "check"
            /\ s_clients' = s_clients
            /\ pkt'.LoopOf = i
            /\ pkt'.LoopAt["peer"] \in {"dropped", "server tun"}
            /\ (ParsePacket(pkt'.LoopIn["peer"]).err
                  \/ C31_Expired(pkt'.LoopIn["peer"]))
                  => pkt'.LoopAt["peer"] = "dropped"

C31_PeerLoopStep ==
    \A i \in Peers :
       /\ (handlerPc[i] = "read" /\ handlerPc'[i] # "read")
             => C31_PeerRound(i)
       /\ (handlerPc[i] # "dereg" /\ handlerPc'[i] = "dereg")
             => \/ handlerPc[i] = "read" /\ pkt'.Reads = pkt.Reads
                \/ handlerPc[i] = "check" /\ ~s_isRunning

C31_PeerLoopDropsAndContinues == [][C31_PeerLoopStep]_vars

\* A peer that is still registered is back at the head of its loop after a
\* packet that parsed and had hops left was dropped: the write failed.
C31_Witness ==
    /\ pkt.LoopOf \in s_clients
    /\ handlerPc[pkt.LoopOf] = "check"
    /\ pkt.LoopAt["peer"] = "dropped"
    /\ ~ParsePacket(pkt.LoopIn["peer"]).err
    /\ ~C31_Expired(pkt.LoopIn["peer"])

\* C32: a packet read from the server's interface goes to at most one peer's
\* transport, and only to a peer that was in the registry with an assigned
\* address equal to the packet's destination when the lookup ran; when the
\* packet does not parse or no peer matches, nothing is written and no
\* BytesOut changes; and the write, failed or not, leaves the registry as it
\* was and the loop at its head.
C32_TunPacket == ParsePacket(pkt'.LoopIn["tun"])

C32_LookupStep ==
    (tunReaderPc = "read" /\ tunReaderPc' # "read"
        /\ pkt'.Reads = pkt.Reads + 1) =>
       /\ pkt'.PeerOut = pkt.PeerOut
       /\ pkt'.FwdTo = pkt.FwdTo
       /\ s_clients' = s_clients
       /\ IF tunReaderPc' = "write"
             THEN /\ ~C32_TunPacket.err
                  /\ pkt'.Lookup = s_clients
                  /\ targetClient' \in pkt'.Lookup
                  /\ TunIPOf(targetClient') = DestinationOf(C32_TunPacket.pkt)
             ELSE /\ tunReaderPc' = "check"
                  /\ targetClient' = 0
                  /\ pkt'.LoopAt["tun"] = "dropped"
                  /\ \/ C32_TunPacket.err
                     \/ \A i \in s_clients :
                           TunIPOf(i) # DestinationOf(C32_TunPacket.pkt)

C32_WriteStep ==
    (tunReaderPc = "write" /\ tunReaderPc' # "write") =>
       /\ tunReaderPc' = "check"
       /\ s_clients' = s_clients
       /\ targetClient \in pkt.Lookup
       /\ pkt'.LoopIn = pkt.LoopIn
       /\ TunIPOf(targetClient) = DestinationOf(C32_TunPacket.pkt)
       /\ pkt'.FwdTo \in {0, targetClient}
       /\ (pkt'.FwdTo = 0) = (pkt'.LoopAt["tun"] = "dropped")
       /\ \A i \in Peers \ {targetClient} : pkt'.PeerOut[i] = pkt.PeerOut[i]

C32_OneMatchingPeer == [][C32_LookupStep /\ C32_WriteStep]_vars

\* A packet from the interface has reached the transport of a peer that the
\* lookup found, and that peer's BytesOut has counted it.
C32_Witness ==
    /\ pkt.LoopAt["tun"] = "downlink"
    /\ pkt.FwdTo \in pkt.Lookup
    /\ pkt.PeerOut[pkt.FwdTo] = SizeOf(pkt.LoopIn["tun"])
    /\ tunReaderPc = "check"

\* C33: a failed read from the server's interface leaves the reader loop
\* alive at its head and changes neither the run flag, the listener nor the
\* registry; from its head the loop reads again as long as the server is
\* running, and it ends only at its head once the server is not running.
C33_FailedRead ==
    /\ tunReaderPc = "read"
    /\ tunReaderPc' # "read"
    /\ pkt'.Reads = pkt.Reads

C33_ReaderStep ==
    /\ C33_FailedRead =>
          /\ tunReaderPc' = "check"
          /\ pkt'.LoopAt["tun"] = "read failed"
          /\ UNCHANGED <<s_isRunning, s_stopClosed, s_listener, s_clients>>
    /\ (tunReaderPc = "check" /\ tunReaderPc' # "check" /\ s_isRunning)
          => tunReaderPc' = "read"
    /\ (tunReaderPc # "done" /\ tunReaderPc' = "done")
          => tunReaderPc = "check" /\ ~s_isRunning

C33_ReadErrorKeepsLoop == [][C33_ReaderStep]_vars

\* The server is running and its reader is about to read again after a read
\* that failed.
C33_Witness ==
    /\ s_isRunning
    /\ tunReaderPc = "read"
    /\ pkt.LoopAt["tun"] = "read failed"

\* C34: BytesIn and LastActivity of a peer are written only by that peer's
\* own read loop, and BytesOut of every peer only by the one interface
\* reader: in every state the goroutines that have written a peer's inbound
\* fields are at most its own handler, those that have written its outbound
\* counter at most the interface reader, and a counter changes only in a
\* step of that goroutine.
C34_SingleWriter ==
    \A i \in Peers :
       /\ pkt.InBy[i] \subseteq {<<"handleClient", i>>}
       /\ pkt.OutBy[i] \subseteq {<<"handleTUNPackets", 0>>}

C34_CounterStep ==
    \A i \in Peers :
       /\ pkt'.PeerIn[i] # pkt.PeerIn[i]
             => handlerPc[i] = "read" /\ handlerPc'[i] # "read"
       /\ pkt'.PeerOut[i] # pkt.PeerOut[i]
             => /\ tunReaderPc = "write" /\ tunReaderPc' # "write"
                /\ targetClient = i

C34_OneWriterPerCounter == []C34_SingleWriter /\ [][C34_CounterStep]_vars

\* The second peer's inbound counter has been written by its handler and
\* its outbound counter by the interface reader.
C34_Witness ==
    /\ pkt.PeerIn[2] > 0
    /\ pkt.InBy[2] = {<<"handleClient", 2>>}
    /\ pkt.PeerOut[2] > 0
    /\ pkt.OutBy[2] = {<<"handleTUNPackets", 0>>}

\* C35: on one TLSConn at most one goroutine is inside Read and at most one
\* inside Write at any time; a goroutine waiting to enter Write finds its
\* lock free whenever no goroutine is inside Write, whatever the readers do,
\* and likewise for Read; and a goroutine waiting to enter Close finds its
\* lock free whenever no goroutine is inside Close, whatever readers and
\* writers do.
C35_Inside(us) == {u \in us : tlsc.proc[u].pc \in {"check", "io", "close"}}

C35_Waiting(us) == {u \in us : tlsc.proc[u].pc = "lock"}

C35_ReadWriteIndependent ==
    /\ Cardinality(C35_Inside(TLSReaders)) <= 1
    /\ Cardinality(C35_Inside(TLSWriters)) <= 1
    /\ Cardinality(C35_Inside(TLSClosers)) <= 1
    /\ \A us \in {TLSReaders, TLSWriters} :
          \A u \in C35_Waiting(us) :
             C35_Inside(us) = {} => tlsc[LockOf(u)] = "none"
    /\ \A p \in C35_Waiting(TLSClosers) :
          C35_Inside(TLSClosers) = {} => tlsc.closeLock = "none"

\* One goroutine is blocked in the Read of the connection and another in its
\* Write, a second reader waits for the read lock, and a Close has gone
\* through.
C35_Witness ==
    /\ tlsc.proc["Read"].pc = "io"
    /\ tlsc.proc["Write"].pc = "io"
    /\ tlsc.proc["Read2"].pc = "lock"
    /\ tlsc.closeReturned
    /\ tlsc.connCloses = 1

\* C36: over every interleaving of Connect, Stop and the reconnect loop the
\* stop channel is never closed a second time and the loop's deferred
\* completion signal is never sent on the stop channel once it is closed: no
\* goroutine faults on the channel.
C36_NoStopChannelFault ==
    c_panic \notin {"close of closed channel", "send on closed channel"}

\* C37: under every interleaving of Stop, the loop's error handling and the
\* running pumps, no goroutine of the client calls Read, Write or Close on
\* c.conn while the field is nil: no goroutine dereferences nil.
C37_NoNilTransportCall == c_panic # "nil pointer dereference"

\* C38: whenever a per-connection handler of the server has finished, its
\* peer's transport has been closed, whether the handler ended on a read
\* error or because the server stopped.
C38_NoTransportLeak ==
    \A i \in Peers : handlerPc[i] = "done" => peerConn[i] = "closed"

\* C39: a pump of the client never waits to report its error: the errors
\* buffered in a connection's errCh and the pumps of that connection that
\* are still running together never exceed the capacity of the channel, so
\* every pump that fails finds room for its one error, whether or not the
\* loop has taken the other pump's error or has left on the stop signal.
C39_LivePumps(t) ==
    {d \in Dirs : pumpPc[<<t, d>>] \notin {"none", "done"}}

C39_ErrorSendNeverBlocks ==
    \A t \in Conns : errCh[t] + Cardinality(C39_LivePumps(t)) <= ErrChCap

\* The loop has left on the stop signal, both pumps of the connection have
\* failed since and ended, and both errors sit in the channel.
C39_Witness ==
    /\ loopPc[1] = "defer"
    /\ loopErrCh[1] = 1
    /\ errCh[1] = 2
    /\ \A d \in Dirs : pumpPc[<<1, d>>] = "done"

\* C40: after any sequence of AddRoute, RemoveRoute and ClearRoutes on a new
\* Router, ipv4Count is the number of v4 routes in the table and ipv6Count
\* the number of v6 routes, so their sum is the length of the table and
\* neither is negative; and a call that replaces an existing route or fails
\* to remove one changes neither count.
C40_Family(fourBytes) ==
    {i \in 1..Len(router.routes) :
        (Len(router.routes[i].Network.IP) = 4) = fourBytes}

C40_CountsMatch ==
    /\ router.ipv4Count = Cardinality(C40_Family(TRUE))
    /\ router.ipv6Count = Cardinality(C40_Family(FALSE))
    /\ router.ipv4Count + router.ipv6Count = Len(router.routes)
    /\ router.ipv4Count >= 0
    /\ router.ipv6Count >= 0

C40_CountStep ==
    LET replaced == /\ router'.Call = "AddRoute"
                    /\ Len(router'.routes) = Len(router.routes)
        notRemoved == /\ router'.Call = "RemoveRoute"
                      /\ router'.Ret # "nil"
    IN  (router'.Ops = router.Ops + 1 /\ (replaced \/ notRemoved)) =>
           /\ router'.ipv4Count = router.ipv4Count
           /\ router'.ipv6Count = router.ipv6Count
           /\ Len(router'.routes) = Len(router.routes)

C40_CountsTrackRoutes == []C40_CountsMatch /\ [][C40_CountStep]_vars

\* The v6 default route has been removed from the table NewRouter built: one
\* v6 route and five v4 routes are left.
C40_Witness ==
    /\ router.Call = "RemoveRoute"
    /\ router.Arg = <<[IP |-> V6Zero, Ones |-> 0]>>
    /\ router.Ret = "nil"
    /\ router.ipv6Count = 1
    /\ router.ipv4Count = 5

====
